---- MODULE Spec2Model ----
(***************************************************************************)
(* Key Concept Extraction (KCE) of the Ontodia diagram model.              *)
(*                                                                         *)
(* The module models                                                       *)
(*   - the concept tree builders of the SPARQL response handler            *)
(*     (getClassTree, getInstanceConceptsTree,                             *)
(*      getReverseInstanceConceptsTree, updateConceptTree),                *)
(*   - the scoring passes and the selection loop of                        *)
(*     DiagramModel.extractKeyConcepts,                                    *)
(*   - uri2name and the name-simplicity formula.                           *)
(*                                                                         *)
(* JavaScript numbers are modelled as exact rationals <<n, d>> extended    *)
(* with NaN and the two infinities, so that 0/0 and x/0 behave as they do  *)
(* in the program.  Arrays are sequences and keep their order and their    *)
(* duplicate entries; objects are named by references (strings).           *)
(***************************************************************************)
EXTENDS Integers, Sequences, FiniteSets, TLC

(***************************************************************************)
(* Numbers                                                                 *)
(***************************************************************************)
Abs(k) == IF k < 0 THEN -k ELSE k

Sign(k) == IF k < 0 THEN -1 ELSE IF k > 0 THEN 1 ELSE 0

RECURSIVE GCD(_, _)
GCD(a, b) == IF b = 0 THEN a ELSE GCD(b, a % b)

NaN == <<0, 0>>

Infinity == <<1, 0>>

NegInfinity == <<-1, 0>>

\* the number n/d in lowest terms, d > 0; n/0 is NaN or an infinity
Norm(n, d) ==
    IF d = 0 THEN <<Sign(n), 0>>
    ELSE LET g == GCD(Abs(n), Abs(d))
         IN  <<Sign(d) * Sign(n) * (Abs(n) \div g), Abs(d) \div g>>

Num(k) == <<k, 1>>

Zero == Num(0)

IsNaN(x) == x = NaN

IsFinite(x) == x[2] # 0

\* x + y
Add(x, y) ==
    IF IsNaN(x) \/ IsNaN(y) THEN NaN
    ELSE IF ~IsFinite(x) THEN (IF ~IsFinite(y) /\ y # x THEN NaN ELSE x)
    ELSE IF ~IsFinite(y) THEN y
    ELSE LET g == GCD(x[2], y[2])
             l == (x[2] \div g) * y[2]
         IN  Norm(x[1] * (l \div x[2]) + y[1] * (l \div y[2]), l)

\* x * y
Mul(x, y) ==
    IF IsNaN(x) \/ IsNaN(y) THEN NaN
    ELSE IF ~IsFinite(x) \/ ~IsFinite(y)
         THEN <<Sign(x[1]) * Sign(y[1]), 0>>
    ELSE LET g1 == GCD(Abs(x[1]), y[2])
             g2 == GCD(Abs(y[1]), x[2])
         IN  IF x[1] = 0 \/ y[1] = 0 THEN Zero
             ELSE <<(x[1] \div g1) * (y[1] \div g2), (x[2] \div g2) * (y[2] \div g1)>>

\* x / y with the IEEE results for a zero or infinite operand
Div(x, y) ==
    IF IsNaN(x) \/ IsNaN(y) THEN NaN
    ELSE IF ~IsFinite(y) THEN (IF ~IsFinite(x) THEN NaN ELSE Zero)
    ELSE IF y[1] = 0 THEN <<Sign(x[1]), 0>>
    ELSE IF ~IsFinite(x) THEN <<Sign(x[1]) * Sign(y[1]), 0>>
    ELSE Mul(x, Norm(y[2], y[1]))

Neg(x) == <<-x[1], x[2]>>

Sub(x, y) == Add(x, Neg(y))

\* x < y ; every comparison with NaN is false
Lt(x, y) ==
    IF IsNaN(x) \/ IsNaN(y) THEN FALSE
    ELSE IF ~IsFinite(x) \/ ~IsFinite(y)
         THEN (IF x = y THEN FALSE
               ELSE IF x = NegInfinity \/ y = Infinity THEN TRUE ELSE FALSE)
    ELSE LET g == GCD(x[2], y[2])
         IN  x[1] * (y[2] \div g) < y[1] * (x[2] \div g)

Gt(x, y) == Lt(y, x)

Ge(x, y) == ~IsNaN(x) /\ ~IsNaN(y) /\ ~Lt(x, y)

Le(x, y) == Ge(y, x)

(***************************************************************************)
(* Arrays (lodash union, difference, indexOf)                              *)
(***************************************************************************)
InSeq(x, s) == \E k \in 1..Len(s) : s[k] = x

\* e, with v evaluated first.  A statement of the code has run when the next
\* one starts; TLC evaluates operator arguments and LET definitions on demand,
\* so a loop that is handed the objects its last iteration updated states
\* the order with Strict
Strict(v, e) == IF v = v THEN e ELSE e

Range(s) == {s[k] : k \in 1..Len(s)}

\* the elements of s that are not in t, in the order and number of s
difference(s, t) == SelectSeq(s, LAMBDA x : ~InSeq(x, t))

\* s without its repeated entries, first occurrences kept
uniq(s) ==
    IF s = << >> THEN << >>
    ELSE LET first == {i \in 1..Len(s) : \A j \in 1..(i - 1) : s[j] # s[i]}
             kept == [k \in 1..Cardinality(first) |->
                         s[CHOOSE i \in first : Cardinality({j \in first : j < i}) = k - 1]]
         IN  SubSeq(kept, 1, Cardinality(first))

union(s, t) == uniq(s \o t)

take(s, n) == IF n <= 0 THEN << >> ELSE SubSeq(s, 1, IF n < Len(s) THEN n ELSE Len(s))

(***************************************************************************)
(* Identifiers.  A URI is a sequence of characters; a concept id of the     *)
(* tree inputs is a short name whose URI is given by ConceptUri.            *)
(***************************************************************************)
UpperCase == {"A", "B", "C", "D", "E", "F", "G", "H", "T"}

LowerCase == {"a", "b", "c", "d", "g", "h", "i", "n", "s"}

\* the characters of the URIs enumerated for the name-simplicity pass
Alphabet == {"A", "a", "_", "#", "/"}

\* largest index k with s[k] = ch, 0 when there is none (lastIndexOf + 1)
lastIndexOf(s, ch) ==
    LET hits == {k \in 1..Len(s) : s[k] = ch}
    IN  IF hits = {} THEN 0 ELSE CHOOSE k \in hits : \A j \in hits : j <= k

uri2name(uri) ==
    LET hashIndex == lastIndexOf(uri, "#")
        lastPartStart == lastIndexOf(uri, "/")
    IN  IF hashIndex # 0 /\ hashIndex # Len(uri)
        THEN SubSeq(uri, hashIndex + 1, Len(uri))
        ELSE IF lastPartStart # 0 /\ lastPartStart # Len(uri)
        THEN SubSeq(uri, lastPartStart + 1, Len(uri))
        ELSE uri

NC_CONSTANT == <<3, 10>>

WEIGHT_BASIC_LEVEL == <<33, 50>>

WEIGHT_NAME_SIMPLICITY == <<33, 100>>

WEIGHT_LOCAL_DENSITY == <<8, 25>>

WEIGHT_GLOBAL_DENSITY == <<2, 25>>

WEIGHT_SUBCLASSES == <<4, 5>>

WEIGHT_PROPERTIES == <<1, 10>>

WEIGHT_INSTANCES == <<1, 10>>

WEIGHT_CO == <<3, 5>>

WEIGHT_CR == <<2, 5>>

RATIO_DISTANCE == <<1, 10>>

WEIGHT_GDL == <<1, 2>>

LOAD_AMOUNT == 5

\* name.length - name.replace(/[A-Z_]/g, '').length
numberOfCompound(name) ==
    Len(name) - Len(SelectSeq(name, LAMBDA ch : ch \notin UpperCase \cup {"_"}))

\* the body of the loop of calcNameSimplicityOfConcepts for one id
nameSimplicityOf(uri) ==
    LET raw == Sub(Num(1), Mul(NC_CONSTANT, Num(numberOfCompound(uri2name(uri)) - 1)))
    IN  IF Lt(raw, Zero) THEN Zero ELSE raw

THING_URI == "Thing"

ConceptUri ==
    [Thing |-> <<"n", "s", "#", "T", "h", "i", "n", "g">>,
     a     |-> <<"n", "s", "#", "a">>,
     b     |-> <<"n", "s", "/", "b">>,
     c     |-> <<"c">>,
     D     |-> <<"n", "s", "#", "D">>,
     EF    |-> <<"n", "s", "#", "E", "F">>,
     GH    |-> <<"n", "s", "#", "G", "_", "h">>,
     Class |-> <<"n", "s", "#", "C", "a">>,
     A     |-> <<"n", "s", "#", "A">>,
     B     |-> <<"n", "s", "#", "B">>,
     A1    |-> <<"n", "s", "#", "A", "1">>,
     A2    |-> <<"n", "s", "#", "A", "2">>,
     B1    |-> <<"n", "s", "#", "B", "1">>,
     B1a   |-> <<"n", "s", "#", "B", "1", "a">>]

(***************************************************************************)
(* Concept objects and trees.  A tree is [root, c]: the reference of its    *)
(* root and the objects reachable from the builder's dictionary, by         *)
(* reference.  A reference is the id of the object, except the synthetic    *)
(* root of getRootOfConceptsTree, which is a second object with the id of   *)
(* owl:Thing.                                                               *)
(***************************************************************************)
NoRef == "undefined"

SynThing == "Thing*"

EmptyFun == [x \in {} |-> x]

NoTree == [root |-> NoRef, c |-> EmptyFun]

\* the object literal of getConceptModel / getConceptFromClassModel
getConceptModel(id, count) ==
    [id |-> id, children |-> << >>, count |-> count, parent |-> << >>,
     level |-> 0,
     aGlobalDensity |-> Zero, globalDensity |-> Zero, localDensity |-> Zero,
     density |-> Zero, contribution |-> Zero, nameSimplicity |-> Zero,
     basicLevel |-> Zero, ncValue |-> Zero, propertyCount |-> 0,
     score |-> Zero, overallScore |-> Zero,
     covered |-> << >>, allSuperConcepts |-> << >>, allSubConcepts |-> << >>,
     indirectSubConcepts |-> << >>, presentOnDiagram |-> FALSE]

RECURSIVE addSubConcept(_, _, _)
RECURSIVE addSubConceptChildren(_, _, _, _)
\* updateConceptTree.addSubConcept: level and sub concept lists, depth first
addSubConcept(cs, concept, level) ==
    LET cs1 == [cs EXCEPT ![concept].level = level,
                          ![concept].allSubConcepts = @ \o cs[concept].children]
    IN  addSubConceptChildren(cs1, concept, 1, level + 1)

\* the each(concept.children, ...) of addSubConcept from its k-th child on
addSubConceptChildren(cs, concept, k, childLevel) ==
    IF k > Len(cs[concept].children) THEN cs
    ELSE LET child == cs[concept].children[k]
             cs1 == addSubConcept(cs, child, childLevel)
             cs2 == [cs1 EXCEPT
                        ![concept].allSubConcepts = @ \o cs1[child].allSubConcepts,
                        ![concept].indirectSubConcepts = @ \o cs1[child].allSubConcepts]
         IN  addSubConceptChildren(cs2, concept, k + 1, childLevel)

\* a faulty addSuperConcepts loop: the parents are pushed, their own super
\* concepts are not concatenated
addParentsOnly(cs, concept, k) ==
    [cs EXCEPT ![concept].allSuperConcepts = @ \o cs[concept].parent]

\* the each(concept.parent, ...) of addSuperConcepts from the k-th parent on
RECURSIVE addParents(_, _, _)
addParents(cs, concept, k) ==
    IF k > Len(cs[concept].parent) THEN cs
    ELSE LET parent == cs[concept].parent[k]
             cs1 == [cs EXCEPT ![concept].allSuperConcepts =
                         (@ \o <<parent>>) \o cs[parent].allSuperConcepts]
         IN  addParents(cs1, concept, k + 1)

RECURSIVE addSuperConcepts(_, _)
RECURSIVE addSuperConceptsChildren(_, _, _)
\* updateConceptTree.addSuperConcepts: super concepts and covered, depth first
addSuperConcepts(cs, concept) ==
    LET cs1 == addParents(cs, concept, 1)
        cs2 == [cs1 EXCEPT ![concept].covered =
                    union(union(cs1[concept].allSuperConcepts,
                                cs1[concept].allSubConcepts), <<concept>>)]
    IN  addSuperConceptsChildren(cs2, concept, 1)

addSuperConceptsChildren(cs, concept, k) ==
    IF k > Len(cs[concept].children) THEN cs
    ELSE addSuperConceptsChildren(addSuperConcepts(cs, cs[concept].children[k]),
                                  concept, k + 1)

updateConceptTree(cs, rootConcept) ==
    addSuperConcepts(addSubConcept(cs, rootConcept, 1), rootConcept)

\* a faulty getRootOfConceptsTree: the first root is returned and the other
\* roots are left as they are
firstRootOfConceptsTree(cs, order) ==
    LET conceptsTree == SelectSeq(order, LAMBDA r : cs[r].parent = << >>)
    IN  IF Len(conceptsTree) >= 1 THEN [root |-> conceptsTree[1], c |-> cs]
        ELSE [root |-> NoRef, c |-> cs]

\* the roots of the dictionary in insertion order; several roots are put
\* under a new concept with the id of owl:Thing
getRootOfConceptsTree(cs, order) ==
    LET conceptsTree == SelectSeq(order, LAMBDA r : cs[r].parent = << >>)
    IN  IF Len(conceptsTree) > 1
        THEN [root |-> SynThing,
              c |-> [r \in DOMAIN cs \cup {SynThing} |->
                       IF r = SynThing
                       THEN [getConceptModel(THING_URI, 0) EXCEPT !.children = conceptsTree]
                       ELSE IF InSeq(r, conceptsTree)
                       THEN [cs[r] EXCEPT !.parent = Append(@, SynThing)]
                       ELSE cs[r]]]
        ELSE IF Len(conceptsTree) = 1 THEN [root |-> conceptsTree[1], c |-> cs]
        ELSE [root |-> NoRef, c |-> cs]

NoId == "none"

\* the dictionary with an object for id, created when it has none
withNode(st, id) ==
    IF id \in DOMAIN st.c THEN st
    ELSE [c |-> st.c @@ (id :> getConceptModel(id, 0)), order |-> Append(st.order, id)]

\* the for loop of getInstanceConceptsTree over the bindings bs
RECURSIVE instanceNodes(_)
instanceNodes(bs) ==
    IF bs = << >> THEN [c |-> EmptyFun, order |-> << >>]
    ELSE LET sNode == bs[Len(bs)]
             st0 == instanceNodes(SubSeq(bs, 1, Len(bs) - 1))
             st1 == withNode(st0, sNode.concept)
         IN  Strict(st0,
                 IF sNode.parent = NoId THEN st1
                 ELSE LET st2 == withNode(st1, sNode.parent)
                      IN  [st2 EXCEPT
                             !.c[sNode.parent].children = Append(@, sNode.concept),
                             !.c[sNode.concept].parent = Append(@, sNode.parent)])

\* the for loop of getReverseInstanceConceptsTree over the bindings bs
RECURSIVE reverseNodes(_)
reverseNodes(bs) ==
    IF bs = << >> THEN [c |-> EmptyFun, order |-> << >>]
    ELSE LET sNode == bs[Len(bs)]
             st0 == reverseNodes(SubSeq(bs, 1, Len(bs) - 1))
             st1 == withNode(st0, sNode.concept)
         IN  Strict(st0,
                 IF sNode.child = NoId THEN st1
                 ELSE LET st2 == withNode(st1, sNode.child)
                      IN  [st2 EXCEPT
                             !.c[sNode.child].parent = Append(@, sNode.concept),
                             !.c[sNode.concept].children = Append(@, sNode.child)])

\* root and update of the two instance builders; no root: updateConceptTree
\* dereferences undefined and the builder throws (NoTree)
finishConceptsTree(st) ==
    LET t == getRootOfConceptsTree(st.c, st.order)
    IN  IF t.root = NoRef THEN NoTree
        ELSE [root |-> t.root, c |-> updateConceptTree(t.c, t.root)]

getInstanceConceptsTree(bs) == finishConceptsTree(instanceNodes(bs))

getReverseInstanceConceptsTree(bs) == finishConceptsTree(reverseNodes(bs))

(***************************************************************************)
(* getClassTree.  Class models are [id, children, count, parent]; labels    *)
(* are left out.  created is createdTreeNodes, temp is tempNodes, tree the  *)
(* list of the classes declared without a parent.                           *)
(***************************************************************************)
PRIMITIVE_TYPE == {"Thing", "Class"}

getClassModel(id, instcount) ==
    [id |-> id, children |-> << >>, count |-> instcount, parent |-> NoId]

\* one iteration of the for loop of getClassTree
classStep(st, sNode) ==
    LET sNodeId == sNode.class
        p == sNode.parent
    IN  IF sNodeId \in DOMAIN st.created
        THEN IF st.created[sNodeId].count = 0
             THEN [st EXCEPT !.created[sNodeId].count = sNode.instcount]
             ELSE st
        ELSE LET newNode == getClassModel(sNodeId, sNode.instcount)
             IN  IF p # NoId
                 THEN LET created1 == st.created @@ (sNodeId :> [newNode EXCEPT !.parent = p])
                      IN  IF p \notin DOMAIN created1
                          THEN LET parentNode == IF p \in DOMAIN st.temp THEN st.temp[p]
                                                 ELSE getClassModel(p, 0)
                                   temp1 == [x \in DOMAIN st.temp \cup {p} |->
                                               IF x = p
                                               THEN [parentNode EXCEPT
                                                        !.children = Append(@, sNodeId),
                                                        !.count = @ + newNode.count]
                                               ELSE st.temp[x]]
                               IN  [st EXCEPT !.created = created1, !.temp = temp1]
                          ELSE [st EXCEPT !.created =
                                   [created1 EXCEPT ![p].children = Append(@, sNodeId),
                                                    ![p].count = @ + newNode.count]]
                 ELSE LET merged == IF sNodeId \in DOMAIN st.temp
                                    THEN [newNode EXCEPT
                                             !.count = @ + st.temp[sNodeId].count,
                                             !.children = st.temp[sNodeId].children]
                                    ELSE newNode
                      IN  [st EXCEPT !.created = st.created @@ (sNodeId :> merged),
                                     !.tree = Append(@, sNodeId)]

RECURSIVE classNodes(_)
classNodes(bs) ==
    IF bs = << >> THEN [created |-> EmptyFun, temp |-> EmptyFun, tree |-> << >>]
    ELSE LET st0 == classNodes(SubSeq(bs, 1, Len(bs) - 1))
         IN  Strict(st0, classStep(st0, bs[Len(bs)]))

\* each(tempNodes, ...): the children of a placeholder go to the created node
mergeTempNodes(st) ==
    [st EXCEPT !.created =
        [id \in DOMAIN st.created |->
            IF id \in DOMAIN st.temp
            THEN [st.created[id] EXCEPT !.children =
                     @ \o difference(st.temp[id].children, st.created[id].children)]
            ELSE st.created[id]]]

\* getConceptTree.addConcept from the k-th child of classModel on
RECURSIVE addConcept(_, _, _, _)
addConcept(cs, created, classModel, k) ==
    IF k > Len(created[classModel].children) THEN cs
    ELSE LET childClass == created[classModel].children[k]
         IN  IF childClass \in PRIMITIVE_TYPE
             THEN addConcept(cs, created, classModel, k + 1)
             ELSE LET childConcept ==
                          [getConceptModel(childClass, created[childClass].count)
                              EXCEPT !.parent = <<classModel>>]
                      cs1 == [cs EXCEPT ![classModel].children = Append(@, childClass)]
                               @@ (childClass :> childConcept)
                  IN  addConcept(addConcept(cs1, created, childClass, 1),
                                 created, classModel, k + 1)

getConceptTree(created, rootClass) ==
    addConcept(rootClass :> getConceptModel(rootClass, created[rootClass].count),
               created, rootClass, 1)

\* the concept tree getClassTree returns, NoTree when it throws: a
\* placeholder parent that was never declared, or no non-primitive root
getClassTree(bs) ==
    LET st0 == classNodes(bs)
    IN  IF \E id \in DOMAIN st0.temp : id \notin DOMAIN st0.created THEN NoTree
        ELSE
        LET st == mergeTempNodes(st0)
            pureClassTree == SelectSeq(st.tree, LAMBDA id : id \notin PRIMITIVE_TYPE)
            withThing == IF THING_URI \in DOMAIN st.created THEN st.created
                         ELSE st.created @@ (THING_URI :> getClassModel(THING_URI, 0))
            attached == [id \in DOMAIN withThing |->
                           IF id = THING_URI
                           THEN [withThing[id] EXCEPT !.children = @ \o pureClassTree]
                           ELSE IF InSeq(id, pureClassTree)
                           THEN [withThing[id] EXCEPT !.parent = THING_URI]
                           ELSE withThing[id]]
        IN  IF Len(pureClassTree) > 1
            THEN [root |-> THING_URI,
                  c |-> updateConceptTree(getConceptTree(attached, THING_URI), THING_URI)]
            ELSE IF Len(pureClassTree) = 1
            THEN [root |-> pureClassTree[1],
                  c |-> updateConceptTree(getConceptTree(withThing, pureClassTree[1]),
                                          pureClassTree[1])]
            ELSE NoTree

(***************************************************************************)
(* lodash sortBy with one iteratee.  The comparer is compareMultiple over   *)
(* compareAscending: a NaN key compares greater than every key, another NaN *)
(* included, equal keys compare by index.  With NaN keys the comparer is not*)
(* a consistent order and the result of Array.prototype.sort depends on the *)
(* engine; insertionSort is the sort of short arrays of older V8,           *)
(* binaryInsertionSort the run detection and binary insertion of TimSort.   *)
(* An item is <<key, index, ref>>.                                          *)
(***************************************************************************)
compareAscending(value, other) ==
    IF value = other /\ ~IsNaN(value) THEN 0
    ELSE IF Gt(value, other) \/ IsNaN(value) THEN 1
    ELSE IF Lt(value, other) \/ IsNaN(other) THEN -1
    ELSE 0

compareMultiple(object, other) ==
    LET result == compareAscending(object[1], other[1])
    IN  IF result # 0 THEN result ELSE object[2] - other[2]

\* position j+1 at which the classic insertion sort puts element, scanning
\* the sorted prefix a[1..j] downwards
RECURSIVE insertionPoint(_, _, _)
insertionPoint(a, element, j) ==
    IF j >= 1 /\ compareMultiple(a[j], element) > 0
    THEN insertionPoint(a, element, j - 1)
    ELSE j + 1

insertAt(a, pos, element) ==
    SubSeq(a, 1, pos - 1) \o <<element>> \o SubSeq(a, pos, Len(a))

RECURSIVE insertionSort(_)
insertionSort(a) ==
    IF Len(a) <= 1 THEN a
    ELSE LET prefix == insertionSort(SubSeq(a, 1, Len(a) - 1))
             element == a[Len(a)]
         IN  insertAt(prefix, insertionPoint(prefix, element, Len(prefix)), element)

\* end of the run that starts at a[1]: descending when a[2] < a[1]
RECURSIVE runEnd(_, _, _)
runEnd(a, k, descending) ==
    IF k > Len(a) THEN k - 1
    ELSE IF descending = (compareMultiple(a[k], a[k - 1]) < 0)
    THEN runEnd(a, k + 1, descending)
    ELSE k - 1

reverse(a) == [k \in 1..Len(a) |-> a[Len(a) + 1 - k]]

\* binary search of TimSort's binary insertion in the sorted prefix a
RECURSIVE binaryPoint(_, _, _, _)
binaryPoint(a, pivot, left, right) ==
    IF left >= right THEN left
    ELSE LET mid == left + ((right - left) \div 2)
         IN  IF compareMultiple(pivot, a[mid]) < 0
             THEN binaryPoint(a, pivot, left, mid)
             ELSE binaryPoint(a, pivot, mid + 1, right)

RECURSIVE binaryInsertFrom(_, _)
binaryInsertFrom(a, start) ==
    IF start > Len(a) THEN a
    ELSE LET prefix == SubSeq(a, 1, start - 1)
             pivot == a[start]
             pos == binaryPoint(prefix, pivot, 1, start)
         IN  binaryInsertFrom(insertAt(prefix, pos, pivot) \o SubSeq(a, start + 1, Len(a)),
                              start + 1)

binaryInsertionSort(a) ==
    IF Len(a) <= 1 THEN a
    ELSE LET descending == compareMultiple(a[2], a[1]) < 0
             e == runEnd(a, 3, descending)
             run == IF descending THEN reverse(SubSeq(a, 1, e)) ELSE SubSeq(a, 1, e)
         IN  binaryInsertFrom(run \o SubSeq(a, e + 1, Len(a)), e + 1)

\* the lists sortBy(concepts, c => -c.score) can return
sortByScore(cs, concepts) ==
    LET items == [k \in 1..Len(concepts) |-> <<Neg(cs[concepts[k]].score), k, concepts[k]>>]
        refs(a) == [k \in 1..Len(a) |-> a[k][3]]
    IN  {refs(insertionSort(items)), refs(binaryInsertionSort(items))}

(***************************************************************************)
(* DiagramModel: concept list, paths and the scoring passes.  cs maps the   *)
(* references of the active tree to the concept objects.                    *)
(***************************************************************************)
\* resetConceptList.addConcept: the concept, then its children, depth first
RECURSIVE addConceptToList(_, _, _)
RECURSIVE addChildrenToList(_, _, _, _)
addConceptToList(cs, st, concept) ==
    addChildrenToList(cs,
        [concepts |-> Append(st.concepts, concept),
         conceptsById |-> [id \in DOMAIN st.conceptsById \cup {cs[concept].id} |->
                              IF id = cs[concept].id THEN concept ELSE st.conceptsById[id]]],
        concept, 1)

addChildrenToList(cs, st, concept, k) ==
    IF Strict(st, k > Len(cs[concept].children)) THEN st
    ELSE addChildrenToList(cs, addConceptToList(cs, st, cs[concept].children[k]),
                           concept, k + 1)

resetConceptList(t) ==
    addConceptToList(t.c, [concepts |-> << >>, conceptsById |-> EmptyFun], t.root)

RECURSIVE calcAllPaths(_, _, _)
RECURSIVE calcSubPaths(_, _, _, _)
calcAllPaths(cs, start, path) ==
    IF InSeq(start, path) THEN << >>
    ELSE LET currentPath == Append(path, start)
         IN  IF Len(cs[start].children) = 0 THEN <<currentPath>>
             ELSE calcSubPaths(cs, start, currentPath, 1)

calcSubPaths(cs, start, currentPath, k) ==
    IF k > Len(cs[start].children) THEN << >>
    ELSE calcAllPaths(cs, cs[start].children[k], currentPath)
            \o calcSubPaths(cs, start, currentPath, k + 1)

\* the each(propertyCount, ...) of setConceptTree
RECURSIVE updatePropertyCount(_, _, _)
updatePropertyCount(cs, conceptsById, propertyCount) ==
    IF propertyCount = << >> THEN cs
    ELSE LET item == propertyCount[Len(propertyCount)]
             cs1 == updatePropertyCount(cs, conceptsById,
                                        SubSeq(propertyCount, 1, Len(propertyCount) - 1))
         IN  IF item.id \in DOMAIN conceptsById
             THEN [cs1 EXCEPT ![conceptsById[item.id]].propertyCount = item.count]
             ELSE cs1

\* first loop of calcDensityOfConcepts from the k-th list entry on
RECURSIVE calcAGlobalDensity(_, _, _, _)
calcAGlobalDensity(cs, maxA, concepts, k) ==
    IF Strict(<<cs, maxA>>, k > Len(concepts)) THEN [c |-> cs, maxAGlobalDensity |-> maxA]
    ELSE LET concept == concepts[k]
             aGlobalDensity ==
                 Add(Add(Mul(Num(Len(cs[concept].children)), WEIGHT_SUBCLASSES),
                         Mul(Num(cs[concept].count), WEIGHT_INSTANCES)),
                     Mul(Num(cs[concept].propertyCount), WEIGHT_PROPERTIES))
         IN  calcAGlobalDensity([cs EXCEPT ![concept].aGlobalDensity = aGlobalDensity],
                                IF Gt(aGlobalDensity, maxA) THEN aGlobalDensity ELSE maxA,
                                concepts, k + 1)

RECURSIVE addSubConceptsKLevel(_, _, _, _)
RECURSIVE addSubConceptsKLevelFrom(_, _, _, _, _, _)
addSubConceptsKLevel(cs, initLevel, concept, k) ==
    IF cs[concept].level + 1 - initLevel <= k
    THEN addSubConceptsKLevelFrom(cs, initLevel, concept, k, 1, << >>)
    ELSE << >>

addSubConceptsKLevelFrom(cs, initLevel, concept, k, j, result) ==
    IF Strict(result, j > Len(cs[concept].children)) THEN result
    ELSE LET subConcept == cs[concept].children[j]
         IN  addSubConceptsKLevelFrom(cs, initLevel, concept, k, j + 1,
                 union(Append(result, subConcept),
                       addSubConceptsKLevel(cs, initLevel, subConcept, k)))

RECURSIVE addSuperConceptsKLevel(_, _, _, _)
RECURSIVE addSuperConceptsKLevelFrom(_, _, _, _, _, _)
addSuperConceptsKLevel(cs, initLevel, concept, k) ==
    IF initLevel - cs[concept].level < k
    THEN addSuperConceptsKLevelFrom(cs, initLevel, concept, k, 1, << >>)
    ELSE << >>

addSuperConceptsKLevelFrom(cs, initLevel, concept, k, j, result) ==
    IF Strict(result, j > Len(cs[concept].parent)) THEN result
    ELSE LET superConcept == cs[concept].parent[j]
         IN  addSuperConceptsKLevelFrom(cs, initLevel, concept, k, j + 1,
                 union(Append(result, superConcept),
                       addSuperConceptsKLevel(cs, initLevel, superConcept, k)))

getNearestConceptsKLevel(cs, k, concept) ==
    union(union(<<concept>>, addSubConceptsKLevel(cs, cs[concept].level, concept, k)),
          addSuperConceptsKLevel(cs, cs[concept].level, concept, k))

\* the each(nearestConcepts, ...) of calcLocalDensity
RECURSIVE maxWeightedGlobalDensity(_, _, _, _)
maxWeightedGlobalDensity(cs, concept, nearestConcepts, j) ==
    IF Strict(nearestConcepts, j = 0) THEN Zero
    ELSE LET m == maxWeightedGlobalDensity(cs, concept, nearestConcepts, j - 1)
             nearestConcept == nearestConcepts[j]
             weightedGlobalDensity ==
                 Mul(Sub(Num(1), Mul(RATIO_DISTANCE,
                         Num(Abs(cs[concept].level - cs[nearestConcept].level)))),
                     cs[nearestConcept].globalDensity)
         IN  Strict(m, IF Gt(weightedGlobalDensity, m) THEN weightedGlobalDensity ELSE m)

calcLocalDensity(cs, concept) ==
    LET nearestConcepts == getNearestConceptsKLevel(cs, 2, concept)
        m == maxWeightedGlobalDensity(cs, concept, nearestConcepts, Len(nearestConcepts))
    IN  [cs EXCEPT ![concept].localDensity =
            Add(Div(cs[concept].globalDensity, m),
                Mul(WEIGHT_GDL, cs[concept].globalDensity))]

\* second loop of calcDensityOfConcepts from the k-th list entry on
RECURSIVE calcDensities(_, _, _, _)
calcDensities(cs, maxA, concepts, k) ==
    IF Strict(cs, k > Len(concepts)) THEN cs
    ELSE LET concept == concepts[k]
             cs1 == [cs EXCEPT ![concept].globalDensity =
                        Div(cs[concept].aGlobalDensity, maxA)]
             cs2 == calcLocalDensity(cs1, concept)
             cs3 == [cs2 EXCEPT ![concept].density =
                        Add(Mul(WEIGHT_GLOBAL_DENSITY, cs2[concept].globalDensity),
                            Mul(WEIGHT_LOCAL_DENSITY, cs2[concept].localDensity))]
         IN  calcDensities(cs3, maxA, concepts, k + 1)

calcDensityOfConcepts(cs, maxA, concepts) ==
    LET p1 == calcAGlobalDensity(cs, maxA, concepts, 1)
    IN  [maxAGlobalDensity |-> p1.maxAGlobalDensity,
         c |-> calcDensities(p1.c, p1.maxAGlobalDensity, concepts, 1)]

RECURSIVE calcNameSimplicityOfConcepts(_, _, _)
calcNameSimplicityOfConcepts(cs, concepts, k) ==
    IF Strict(cs, k > Len(concepts)) THEN cs
    ELSE calcNameSimplicityOfConcepts(
             [cs EXCEPT ![concepts[k]].nameSimplicity =
                 nameSimplicityOf(ConceptUri[cs[concepts[k]].id])],
             concepts, k + 1)

\* the votes of one path: interior entries i .. Len(path)-1 get + 1
RECURSIVE voteOnPath(_, _, _)
voteOnPath(st, path, i) ==
    IF Strict(st, i > Len(path) - 1) THEN st
    ELSE LET basicLevel == Add(st.c[path[i]].basicLevel, Num(1))
         IN  voteOnPath([c |-> [st.c EXCEPT ![path[i]].basicLevel = basicLevel],
                         max |-> IF Gt(basicLevel, st.max) THEN basicLevel ELSE st.max],
                        path, i + 1)

RECURSIVE voteOnPaths(_, _, _)
voteOnPaths(st, paths, k) ==
    IF Strict(st, k > Len(paths)) THEN st
    ELSE voteOnPaths(IF Len(paths[k]) >= 3 THEN voteOnPath(st, paths[k], 2) ELSE st,
                     paths, k + 1)

RECURSIVE normalizeBasicLevel(_, _, _, _)
normalizeBasicLevel(cs, max, concepts, k) ==
    IF Strict(cs, k > Len(concepts)) THEN cs
    ELSE normalizeBasicLevel(
             [cs EXCEPT ![concepts[k]].basicLevel = Div(@, max)], max, concepts, k + 1)

calcBasicLevelOfConcepts(cs, paths, concepts) ==
    LET st == voteOnPaths([c |-> cs, max |-> Zero], paths, 1)
    IN  normalizeBasicLevel(st.c, st.max, concepts, 1)

RECURSIVE calcNcValues(_, _, _)
calcNcValues(cs, concepts, k) ==
    IF Strict(cs, k > Len(concepts)) THEN cs
    ELSE calcNcValues(
             [cs EXCEPT ![concepts[k]].ncValue =
                 Add(Mul(WEIGHT_BASIC_LEVEL, cs[concepts[k]].basicLevel),
                     Mul(WEIGHT_NAME_SIMPLICITY, cs[concepts[k]].nameSimplicity))],
             concepts, k + 1)

\* a faulty pass: ncValue is computed before the basic level pass has run
ncValueBeforeBasicLevel(cs, paths, concepts) ==
    calcBasicLevelOfConcepts(calcNcValues(calcNameSimplicityOfConcepts(cs, concepts, 1),
                                          concepts, 1),
                             paths, concepts)

calcNaturalCategoryValueOfConcepts(cs, paths, concepts) ==
    calcNcValues(calcBasicLevelOfConcepts(calcNameSimplicityOfConcepts(cs, concepts, 1),
                                          paths, concepts),
                 concepts, 1)

RECURSIVE calcScoreOfConcepts(_, _, _)
calcScoreOfConcepts(cs, concepts, k) ==
    IF Strict(cs, k > Len(concepts)) THEN cs
    ELSE calcScoreOfConcepts(
             [cs EXCEPT ![concepts[k]].score =
                 Add(cs[concepts[k]].ncValue, cs[concepts[k]].density)],
             concepts, k + 1)

\* the three scoring passes at the head of extractKeyConcepts
scoreConcepts(cs, maxA, paths, concepts) ==
    LET d == calcDensityOfConcepts(cs, maxA, concepts)
    IN  [maxAGlobalDensity |-> d.maxAGlobalDensity,
         c |-> calcScoreOfConcepts(
                   calcNaturalCategoryValueOfConcepts(d.c, paths, concepts), concepts, 1)]

\* union of the covered lists of the entries of concepts other than concept
RECURSIVE coverOfOtherConcepts(_, _, _, _)
coverOfOtherConcepts(cs, concepts, concept, j) ==
    IF j = 0 THEN << >>
    ELSE LET rest == coverOfOtherConcepts(cs, concepts, concept, j - 1)
         IN  Strict(rest, IF concepts[j] # concept
                          THEN union(rest, cs[concepts[j]].covered) ELSE rest)

\* a faulty count: the cover of the other concepts is not taken away
contributionOfCovered(cs, concepts, concept) == Len(cs[concept].covered)

contributionOf(cs, concepts, concept) ==
    Len(difference(cs[concept].covered,
                   coverOfOtherConcepts(cs, concepts, concept, Len(concepts))))

RECURSIVE sumContributions(_, _, _)
sumContributions(st, concepts, k) ==
    IF Strict(st, k > Len(concepts)) THEN st
    ELSE LET contribution == contributionOf(st.c, concepts, concepts[k])
         IN  sumContributions(
                 [c |-> [st.c EXCEPT ![concepts[k]].contribution = Num(contribution)],
                  sum |-> st.sum + contribution],
                 concepts, k + 1)

\* [c, avg]: the objects with their contribution set and the average returned
calcContributionOfConcepts(cs, concepts) ==
    LET st == sumContributions([c |-> cs, sum |-> 0], concepts, 1)
    IN  [c |-> st.c, avg |-> Div(Num(st.sum), Num(Len(concepts)))]

RECURSIVE findMaxContribution(_, _, _)
findMaxContribution(cs, concepts, j) ==
    IF j = 0 THEN Zero
    ELSE LET m == findMaxContribution(cs, concepts, j - 1)
         IN  Strict(m, IF Gt(cs[concepts[j]].contribution, m)
                       THEN cs[concepts[j]].contribution ELSE m)

RECURSIVE sumOverallScores(_, _, _, _)
sumOverallScores(st, maxContribution, concepts, k) ==
    IF Strict(st, k > Len(concepts)) THEN st
    ELSE LET concept == concepts[k]
             overallScore ==
                 Add(Div(Mul(WEIGHT_CO, st.c[concept].contribution), maxContribution),
                     Mul(WEIGHT_CR, st.c[concept].score))
         IN  sumOverallScores(
                 [c |-> [st.c EXCEPT ![concept].overallScore = overallScore],
                  sum |-> Add(st.sum, overallScore)],
                 maxContribution, concepts, k + 1)

calcOverallScoreOfConcepts(cs, concepts) ==
    LET st == sumOverallScores([c |-> cs, sum |-> Zero],
                               findMaxContribution(cs, concepts, Len(concepts)),
                               concepts, 1)
    IN  [c |-> st.c, avg |-> Div(st.sum, Num(Len(concepts)))]

\* [worst, result] after the first j entries of concepts
RECURSIVE worstOverallScore(_, _, _)
worstOverallScore(cs, concepts, j) ==
    IF j = 0 THEN [worstOverallScore |-> Num(2), result |-> NoRef]
    ELSE LET w == worstOverallScore(cs, concepts, j - 1)
         IN  Strict(w, IF Lt(cs[concepts[j]].overallScore, w.worstOverallScore)
                       THEN [worstOverallScore |-> cs[concepts[j]].overallScore,
                             result |-> concepts[j]]
                       ELSE w)

findConceptWithWorstOverallScore(cs, concepts) ==
    worstOverallScore(cs, concepts, Len(concepts)).result

\* the lists loadMoreConcepts(conceptId) can return
loadMoreConcepts(cs, byId, conceptId) ==
    LET concept == byId[conceptId]
        unShownConcepts == SelectSeq(cs[concept].allSubConcepts,
                                     LAMBDA subConcept : ~cs[subConcept].presentOnDiagram)
    IN  {take(sorted, LOAD_AMOUNT) : sorted \in sortByScore(cs, unShownConcepts)}

(***************************************************************************)
(* Inputs                                                                  *)
(***************************************************************************)
MaxBindings == 3

MaxClassBindings == 2

MaxInstCount == 1

MaxPropCount == 2

MaxLoadBindings == 2

MaxClassLoadBindings == 1

MaxN == 5

MaxReplaceBindings == 1

MaxUriLen == 3

\* ids of the enumerated instance bindings; a parent precedes its child in
\* this order, so the enumerated bindings are acyclic
InstanceIds == <<"a", "D", "EF", "b">>

ClassIds == {"Thing", "a", "D"}

PropIds == {"b"}

\* all sequences over S of length at most n
RECURSIVE SeqsUpTo(_, _)
SeqsUpTo(S, n) ==
    IF n = 0 THEN {<< >>}
    ELSE LET shorter == SeqsUpTo(S, n - 1)
         IN  shorter \cup {Append(q, x) : q \in {r \in shorter : Len(r) = n - 1}, x \in S}

InstanceBinding ==
    {[concept |-> InstanceIds[j], parent |-> NoId] : j \in 1..Len(InstanceIds)}
    \cup {[concept |-> InstanceIds[j[1]], parent |-> InstanceIds[j[2]]] :
            j \in {x \in (1..Len(InstanceIds)) \X (1..Len(InstanceIds)) : x[2] < x[1]}}

ReverseBinding ==
    {[concept |-> b.parent, child |-> b.concept] : b \in {x \in InstanceBinding : x.parent # NoId}}
    \cup {[concept |-> b.concept, child |-> NoId] : b \in {x \in InstanceBinding : x.parent = NoId}}

ClassBinding ==
    [class : ClassIds, parent : ClassIds \cup {NoId}, instcount : {0, MaxInstCount}]

\* the taxonomy with one property count under which a swap is accepted
SwapTaxonomy ==
    <<[concept |-> "a", parent |-> "GH"], [concept |-> "b", parent |-> "GH"],
      [concept |-> "EF", parent |-> "a"], [concept |-> "D", parent |-> "a"],
      [concept |-> "c", parent |-> "EF"]>>

\* the 7-node taxonomy of the concrete scenario: Thing > A, B; A > A1, A2;
\* B > B1 > B1a
ScenarioTaxonomy ==
    <<[concept |-> "A", parent |-> "Thing"], [concept |-> "B", parent |-> "Thing"],
      [concept |-> "A1", parent |-> "A"], [concept |-> "A2", parent |-> "A"],
      [concept |-> "B1", parent |-> "B"], [concept |-> "B1a", parent |-> "B1"]>>

\* a taxonomy with a two-parent concept in which a candidate set has the
\* higher average overallScore and the lower average contribution
TradeOffTaxonomy ==
    <<[concept |-> "EF", parent |-> "a"], [concept |-> "EF", parent |-> "D"],
      [concept |-> "b", parent |-> "a"]>>

\* a chain in which the concept below the root has the most children
DensityTaxonomy ==
    <<[concept |-> "D", parent |-> "a"], [concept |-> "EF", parent |-> "D"],
      [concept |-> "b", parent |-> "D"]>>

\* a taxonomy in which EF is a child of the root a and a grandchild of it
\* through D; EF is listed before D among the children of a
LevelTaxonomy ==
    <<[concept |-> "EF", parent |-> "a"], [concept |-> "D", parent |-> "a"],
      [concept |-> "EF", parent |-> "D"], [concept |-> "b", parent |-> "EF"]>>

\* a taxonomy in which D and GH have two parents each and D is accepted
\* into the best set of three concepts
SharedTaxonomy ==
    <<[concept |-> "GH", parent |-> "b"], [concept |-> "b", parent |-> "c"],
      [concept |-> "D", parent |-> "a"], [concept |-> "D", parent |-> "EF"],
      [concept |-> "GH", parent |-> "D"]>>

Fixtures ==
    {SwapTaxonomy, ScenarioTaxonomy, TradeOffTaxonomy, DensityTaxonomy, SharedTaxonomy,
     LevelTaxonomy}

InstanceInputs == SeqsUpTo(InstanceBinding, MaxBindings) \cup Fixtures

\* the responses loaded into the diagram model
LoadInstanceInputs ==
    SeqsUpTo(InstanceBinding, MaxLoadBindings) \cup Fixtures

LoadClassInputs == SeqsUpTo(ClassBinding, MaxClassLoadBindings)

\* the responses that replace the tree of a scored model
ReplaceInputs == SeqsUpTo(InstanceBinding, MaxReplaceBindings) \cup {TradeOffTaxonomy}

ReverseInputs == SeqsUpTo(ReverseBinding, MaxBindings)

\* a class declared twice, under a parent and without one
DeclaredTwice ==
    <<[class |-> "a", parent |-> "D", instcount |-> 0],
      [class |-> "a", parent |-> NoId, instcount |-> 0],
      [class |-> "D", parent |-> NoId, instcount |-> 0]>>

\* a class under owl:Thing next to a single class declared without a parent
PrimitiveParent ==
    <<[class |-> "Thing", parent |-> NoId, instcount |-> 0],
      [class |-> "a", parent |-> "Thing", instcount |-> 0],
      [class |-> "D", parent |-> NoId, instcount |-> 0]>>

ClassFixtures == {DeclaredTwice, PrimitiveParent}

ClassInputs == SeqsUpTo(ClassBinding, MaxClassBindings) \cup ClassFixtures

MaxLinks == 2

MaxVirtualLinks == 2

MaxMenuLinks == 2

MaxBoxItems == 2

\* the elements of the graph
LinkElements == {"Thing", "a", "D"}

SUB_CLASS_OF_IRI == "subClassOf"

IS_A_IRI == "is-a"

HAS_RELATION_WITH_IRI == "hasRelationWith"

LinkTypeIds == {SUB_CLASS_OF_IRI, "b"}

\* the link models of linksInfo: onLinkInfoLoaded gets them with directLink set
LinkModelInputs ==
    [linkTypeId : LinkTypeIds, sourceId : LinkElements, targetId : LinkElements,
     directLink : {TRUE}]

\* the boxes of the classifier selection menu, by the id of their props
Boxes == {"all-links", "direct-links", "reverse-links"}

\* options.elements of the menu: the loaded relations
MenuLinks == SubSeq(<<"b", "c", "a">>, 1, MaxMenuLinks)

PropertyCountInputs ==
    {<< >>} \cup {<<[id |-> id, count |-> k]>> : id \in PropIds, k \in 1..MaxPropCount}

(***************************************************************************)
(* State                                                                   *)
(***************************************************************************)
VARIABLES
    input,              \* the builder called last and its bindings
    built,              \* the concept tree that call returned, NoTree before
                        \* the first call and when the builder threw
    activeConceptTree,  \* DiagramModel.activeConceptTree with its objects
    concepts,           \* DiagramModel.concepts
    conceptsById,       \* DiagramModel.conceptsById
    paths,              \* DiagramModel.paths
    maxAGlobalDensity,  \* DiagramModel.maxAGlobalDensity
    keyConcepts,        \* DiagramModel.keyConcepts, << >> while undefined
    pc,                 \* "idle", or "loop" inside the for loop of extractKeyConcepts
    n,                  \* argument of the extractKeyConcepts call
    bestConceptSet,     \* locals of extractKeyConcepts
    avgContribution,
    avgOverallScore,
    remainConcepts,
    i,
    last,               \* what the last evaluation of a concept set did
    calls,              \* number of extractKeyConcepts calls
    outcome,            \* "none" or "returned": how the last call ended
    previous,           \* the call before the last one: its n, the objects and
                        \* the list it returned, NoCall when there was none
    loadMore,           \* the loadMoreConcepts call made: its argument and the
                        \* list it returned, NoLoad when there was none
    classConceptTree,   \* DiagramModel.classConceptTree, NoTree before importLayout;
                        \* while active = "class" its objects are the ones of
                        \* activeConceptTree, otherwise the ones kept here
    active,             \* the tree activeConceptTree refers to: "none", "class"
                        \* (classConceptTree) or "individual" (an instance tree)
    trees,              \* number of times the active tree was set
    nearest,            \* the getNearestConceptsKLevel call made: its argument and
                        \* the list it returned, NoNearest when there was none
    isAPath,            \* the getIsAPath call made: its arguments, how it
                        \* ended and the list it returned, NoPath when there was none
    graphLinks,         \* DiagramModel.links: the Link cells of the graph
    linksByType,        \* DiagramModel.linksByType
    elementLinks,       \* Element.links of every element of the graph
    virtualLinks,       \* DiagramModel.virtualLinks
    nextLinkId,         \* the id the next Link object gets
    boxItems,           \* state.items of the three boxes of the classifier menu
    selectedItems,      \* state.selectedItems of the three boxes: the keys in
                        \* insertion order, each with its value
    uri,                \* argument of the name-simplicity computation
    nameSimplicity      \* its result

vars == <<input, built, activeConceptTree, concepts, conceptsById, paths,
          maxAGlobalDensity, keyConcepts, pc, n, bestConceptSet, avgContribution,
          avgOverallScore, remainConcepts, i, last, calls, outcome, previous, loadMore,
          classConceptTree, active, trees, nearest, isAPath, graphLinks, linksByType,
          elementLinks, virtualLinks, nextLinkId, boxItems, selectedItems,
          uri, nameSimplicity>>

buildVars == <<input, built>>

modelVars == <<activeConceptTree, concepts, conceptsById, paths, maxAGlobalDensity,
               keyConcepts, pc, n, bestConceptSet, avgContribution, avgOverallScore,
               remainConcepts, i, last, calls, outcome, previous, loadMore,
               classConceptTree, active, trees, nearest, isAPath>>

treeVars == <<classConceptTree, active, trees>>

queryVars == <<nearest, isAPath>>

linkVars == <<graphLinks, linksByType, elementLinks, virtualLinks, nextLinkId>>

menuVars == <<boxItems, selectedItems>>

nameVars == <<uri, nameSimplicity>>

\* last: the concept set evaluated last (newConceptSet, or the initial
\* bestConceptSet), the two averages computed for it (avgContribution1,
\* avgOverallScore1), and what the loop did with it
NoEvaluation ==
    [kind |-> "none", searched |-> FALSE, evaluated |-> << >>, worst |-> NoRef,
     candidate |-> NoRef, accepted |-> FALSE, before |-> << >>,
     avgContribution1 |-> Zero, avgOverallScore1 |-> Zero]

NoCall == [n |-> 0, c |-> EmptyFun, keyConcepts |-> << >>]

NoLoad == [called |-> FALSE, conceptId |-> NoId, result |-> << >>]

NoNearest == [called |-> FALSE, concept |-> NoRef, result |-> << >>]

NoPath == [called |-> FALSE, sourceId |-> NoId, targetId |-> NoId, outcome |-> "none",
           result |-> << >>]

Init ==
    /\ input = [builder |-> "none", bindings |-> << >>]
    /\ built = NoTree
    /\ activeConceptTree = NoTree
    /\ concepts = << >>
    /\ conceptsById = EmptyFun
    /\ paths = << >>
    /\ maxAGlobalDensity = Zero
    /\ keyConcepts = << >>
    /\ pc = "idle"
    /\ n = 0
    /\ bestConceptSet = << >>
    /\ avgContribution = Zero
    /\ avgOverallScore = Zero
    /\ remainConcepts = << >>
    /\ i = 0
    /\ last = NoEvaluation
    /\ calls = 0
    /\ outcome = "none"
    /\ previous = NoCall
    /\ loadMore = NoLoad
    /\ classConceptTree = NoTree
    /\ active = "none"
    /\ trees = 0
    /\ nearest = NoNearest
    /\ isAPath = NoPath
    /\ graphLinks = << >>
    /\ linksByType = EmptyFun
    /\ elementLinks = [e \in LinkElements |-> << >>]
    /\ virtualLinks = << >>
    /\ nextLinkId = 1
    /\ boxItems = [box \in Boxes |-> IF box = "all-links" THEN MenuLinks ELSE << >>]
    /\ selectedItems = [box \in Boxes |-> << >>]
    /\ uri = << >>
    /\ nameSimplicity = Zero

(***************************************************************************)
(* The builders, called on a SPARQL response.  They are pure: one call per  *)
(* behaviour shows every result.                                            *)
(***************************************************************************)
CallGetClassTree(bs) ==
    /\ input.builder = "none"
    /\ input' = [builder |-> "getClassTree", bindings |-> bs]
    /\ built' = getClassTree(bs)
    /\ UNCHANGED <<modelVars, nameVars, linkVars, menuVars>>

CallGetInstanceConceptsTree(bs) ==
    /\ input.builder = "none"
    /\ input' = [builder |-> "getInstanceConceptsTree", bindings |-> bs]
    /\ built' = getInstanceConceptsTree(bs)
    /\ UNCHANGED <<modelVars, nameVars, linkVars, menuVars>>

CallGetReverseInstanceConceptsTree(bs) ==
    /\ input.builder = "none"
    /\ input' = [builder |-> "getReverseInstanceConceptsTree", bindings |-> bs]
    /\ built' = getReverseInstanceConceptsTree(bs)
    /\ UNCHANGED <<modelVars, nameVars, linkVars, menuVars>>

NextBuild ==
    \/ \E bs \in ClassInputs : CallGetClassTree(bs)
    \/ \E bs \in InstanceInputs : CallGetInstanceConceptsTree(bs)
    \/ \E bs \in ReverseInputs : CallGetReverseInstanceConceptsTree(bs)

SpecBuild == Init /\ [][NextBuild]_vars

(***************************************************************************)
(* DiagramModel operations.  A local of a handler is bound with \E over a   *)
(* one-element set: the value is computed once, where the handler assigns  *)
(* it, and is the same in every later statement.                           *)
(***************************************************************************)
\* setConceptTree(rootConcept, propertyCount)
setConceptTree(t, propertyCount) ==
    \E st \in {resetConceptList(t)} :
        /\ activeConceptTree' =
              [root |-> t.root,
               c |-> updatePropertyCount(t.c, st.conceptsById, propertyCount)]
        /\ concepts' = st.concepts
        /\ conceptsById' = st.conceptsById
        /\ paths' = calcAllPaths(t.c, t.root, << >>)

\* importLayout: the class tree of the data provider becomes the concept
\* tree; a builder that throws rejects the promise and nothing is set.
\* Trees are loaded into a model that holds none.
ImportLayout(bs, propertyCount) ==
    /\ pc = "idle"
    /\ activeConceptTree = NoTree
    /\ calls = 0
    /\ \E t \in {getClassTree(bs)} :
           /\ t # NoTree
           /\ setConceptTree(t, propertyCount)
    /\ classConceptTree' = activeConceptTree'
    /\ active' = "class"
    /\ trees' = trees + 1
    /\ UNCHANGED <<maxAGlobalDensity, keyConcepts, pc, n, bestConceptSet, avgContribution,
                   avgOverallScore, remainConcepts, i, last, calls, outcome, previous,
                   loadMore>>
    /\ UNCHANGED <<buildVars, nameVars, queryVars, linkVars, menuVars>>

\* saveClassifierSelection: the instance concepts tree becomes the concept
\* tree; the objects of the class tree stay as they are
saveClassifierSelection(bs, propertyCount) ==
    /\ \E t \in {getInstanceConceptsTree(bs)} :
           /\ t # NoTree
           /\ setConceptTree(t, propertyCount)
    /\ classConceptTree' = IF active = "class" THEN activeConceptTree ELSE classConceptTree
    /\ active' = "individual"
    /\ trees' = trees + 1
    /\ UNCHANGED <<maxAGlobalDensity, keyConcepts, pc, n, bestConceptSet, avgContribution,
                   avgOverallScore, remainConcepts, i, last, calls, outcome, previous,
                   loadMore>>
    /\ UNCHANGED <<buildVars, nameVars, queryVars, linkVars, menuVars>>

\* the selection is saved in a model that holds no tree
SaveClassifierSelection(bs, propertyCount) ==
    /\ pc = "idle"
    /\ activeConceptTree = NoTree
    /\ calls = 0
    /\ saveClassifierSelection(bs, propertyCount)

\* the selection is saved once the tree set first has been scored: the
\* active tree is replaced
SaveClassifierSelectionAgain(bs, propertyCount) ==
    /\ pc = "idle"
    /\ trees = 1
    /\ calls = 1
    /\ outcome = "returned"
    /\ saveClassifierSelection(bs, propertyCount)

\* setRegime('class') once the tree set first has been scored:
\* setActiveConceptsTreeToClassConceptTree makes the class tree the active
\* tree; without a class tree resetConceptList throws
SetRegimeClass ==
    /\ pc = "idle"
    /\ trees = 1
    /\ calls = 1
    /\ outcome = "returned"
    /\ active # "none"
    /\ classConceptTree # NoTree
    /\ \E t \in {IF active = "class" THEN activeConceptTree ELSE classConceptTree} :
       \E st \in {resetConceptList(t)} :
           /\ activeConceptTree' = t
           /\ concepts' = st.concepts
           /\ conceptsById' = st.conceptsById
           /\ paths' = calcAllPaths(t.c, t.root, << >>)
    /\ classConceptTree' = IF active = "class" THEN activeConceptTree ELSE classConceptTree
    /\ active' = "class"
    /\ trees' = trees + 1
    /\ UNCHANGED <<maxAGlobalDensity, keyConcepts, pc, n, bestConceptSet, avgContribution,
                   avgOverallScore, remainConcepts, i, last, calls, outcome, previous,
                   loadMore>>
    /\ virtualLinks' = << >>
    /\ UNCHANGED <<graphLinks, linksByType, elementLinks, nextLinkId>>
    /\ UNCHANGED <<buildVars, nameVars, queryVars, menuVars>>

\* extractKeyConcepts(nn) up to the for loop, or up to its return when
\* nn >= this.concepts.length
extractKeyConcepts(nn) ==
    /\ calls' = calls + 1
    /\ n' = nn
    /\ \E sc \in {scoreConcepts(activeConceptTree.c, maxAGlobalDensity, paths, concepts)} :
           /\ maxAGlobalDensity' = sc.maxAGlobalDensity
           /\ IF nn >= Len(concepts)
              THEN /\ activeConceptTree' = [activeConceptTree EXCEPT !.c = sc.c]
                   /\ keyConcepts' = concepts
                   /\ outcome' = "returned"
                   /\ last' = NoEvaluation
                   /\ UNCHANGED <<concepts, pc, bestConceptSet, avgContribution,
                                  avgOverallScore, remainConcepts, i>>
              ELSE \E sorted \in sortByScore(sc.c, concepts) :
                   \E best \in {take(sorted, nn)} :
                   \E co \in {calcContributionOfConcepts(sc.c, best)} :
                   \E ov \in {calcOverallScoreOfConcepts(co.c, best)} :
                         /\ concepts' = sorted
                         /\ bestConceptSet' = best
                         /\ avgContribution' = co.avg
                         /\ avgOverallScore' = ov.avg
                         /\ remainConcepts' = difference(sorted, best)
                         /\ activeConceptTree' = [activeConceptTree EXCEPT !.c = ov.c]
                         /\ i' = 0
                         /\ pc' = "loop"
                         /\ outcome' = "none"
                         /\ last' = [kind |-> "initial", searched |-> TRUE,
                                     evaluated |-> best, worst |-> NoRef,
                                     candidate |-> NoRef, accepted |-> FALSE,
                                     before |-> << >>,
                                     avgContribution1 |-> co.avg,
                                     avgOverallScore1 |-> ov.avg]
                         /\ UNCHANGED keyConcepts
    /\ UNCHANGED <<conceptsById, paths, loadMore, treeVars>>
    /\ UNCHANGED <<buildVars, nameVars, queryVars, linkVars, menuVars>>

\* the first call on the model
ExtractKeyConcepts(nn) ==
    /\ pc = "idle"
    /\ calls = 0
    /\ previous' = previous
    /\ extractKeyConcepts(nn)

\* the call is repeated with the same n once it has returned; the tree is
\* the one of the first call
ExtractKeyConceptsAgain ==
    /\ pc = "idle"
    /\ calls = 1
    /\ outcome = "returned"
    /\ previous' = [n |-> n, c |-> activeConceptTree.c, keyConcepts |-> keyConcepts]
    /\ extractKeyConcepts(n)

\* a faulty test: the average contribution is not compared
betterOverallScoreOnly(overall1, overall, contribution1, contribution) ==
    Gt(overall1, overall)

\* the test of the if in the for loop: the new set replaces the best set
betterConceptSet(overall1, overall, contribution1, contribution) ==
    Gt(overall1, overall) /\ Ge(contribution1, contribution)

\* one iteration of the for loop over remainConcepts
SelectionStep ==
    /\ pc = "loop"
    /\ i < Len(remainConcepts)
    /\ \E worstOverallScoreConcept \in
              {findConceptWithWorstOverallScore(activeConceptTree.c, bestConceptSet)} :
       \E excludedWorstScoreConceptSet \in
              {difference(bestConceptSet, <<worstOverallScoreConcept>>)} :
       \E newConceptSet \in
              {union(excludedWorstScoreConceptSet, <<remainConcepts[i + 1]>>)} :
       \E co \in {calcContributionOfConcepts(activeConceptTree.c, newConceptSet)} :
       \E ov \in {calcOverallScoreOfConcepts(co.c, newConceptSet)} :
       \E accept \in
              {betterConceptSet(ov.avg, avgOverallScore, co.avg, avgContribution)} :
           /\ activeConceptTree' = [activeConceptTree EXCEPT !.c = ov.c]
           /\ bestConceptSet' = IF accept THEN newConceptSet ELSE bestConceptSet
           /\ avgContribution' = IF accept THEN co.avg ELSE avgContribution
           /\ avgOverallScore' = IF accept THEN ov.avg ELSE avgOverallScore
           /\ last' = [kind |-> "candidate", searched |-> TRUE,
                       evaluated |-> newConceptSet, worst |-> worstOverallScoreConcept,
                       candidate |-> remainConcepts[i + 1], accepted |-> accept,
                       before |-> bestConceptSet,
                       avgContribution1 |-> co.avg, avgOverallScore1 |-> ov.avg]
    /\ i' = i + 1
    /\ UNCHANGED <<concepts, conceptsById, paths, maxAGlobalDensity, keyConcepts, pc, n,
                   remainConcepts, calls, outcome, previous, loadMore, treeVars>>
    /\ UNCHANGED <<buildVars, nameVars, queryVars, linkVars, menuVars>>

\* the loop is left and the best concept set is returned
ExtractReturn ==
    /\ pc = "loop"
    /\ i = Len(remainConcepts)
    /\ keyConcepts' = bestConceptSet
    /\ pc' = "idle"
    /\ outcome' = "returned"
    /\ UNCHANGED <<activeConceptTree, concepts, conceptsById, paths, maxAGlobalDensity, n,
                   bestConceptSet, avgContribution, avgOverallScore, remainConcepts, i,
                   last, calls, previous, loadMore, treeVars>>
    /\ UNCHANGED <<buildVars, nameVars, queryVars, linkVars, menuVars>>

NRange == -1..MaxN

Next ==
    \/ \E bs \in LoadClassInputs, p \in PropertyCountInputs : ImportLayout(bs, p)
    \/ \E bs \in LoadInstanceInputs, p \in PropertyCountInputs : SaveClassifierSelection(bs, p)
    \/ \E nn \in NRange : ExtractKeyConcepts(nn)
    \/ SelectionStep
    \/ ExtractReturn

Spec == Init /\ [][Next]_vars

MaxShown == 2

\* the concepts with presentOnDiagram set
ShownConcepts == {r \in DOMAIN activeConceptTree.c : activeConceptTree.c[r].presentOnDiagram}

\* the diagram view puts the concept on the diagram and sets its flag
ShowConcept(r) ==
    /\ pc = "idle"
    /\ calls > 0
    /\ ~loadMore.called
    /\ ~activeConceptTree.c[r].presentOnDiagram
    /\ Cardinality(ShownConcepts) < MaxShown
    /\ activeConceptTree' = [activeConceptTree EXCEPT !.c[r].presentOnDiagram = TRUE]
    /\ UNCHANGED <<concepts, conceptsById, paths, maxAGlobalDensity, keyConcepts, pc, n,
                   bestConceptSet, avgContribution, avgOverallScore, remainConcepts, i,
                   last, calls, outcome, previous, loadMore, treeVars>>
    /\ UNCHANGED <<buildVars, nameVars, queryVars, linkVars, menuVars>>

\* unShowConcepts(): every listed concept is off the diagram
UnShowConcepts ==
    /\ pc = "idle"
    /\ ~loadMore.called
    /\ ShownConcepts # {}
    /\ activeConceptTree' =
          [activeConceptTree EXCEPT !.c =
              [r \in DOMAIN @ |-> IF InSeq(r, concepts)
                                  THEN [@[r] EXCEPT !.presentOnDiagram = FALSE]
                                  ELSE @[r]]]
    /\ UNCHANGED <<concepts, conceptsById, paths, maxAGlobalDensity, keyConcepts, pc, n,
                   bestConceptSet, avgContribution, avgOverallScore, remainConcepts, i,
                   last, calls, outcome, previous, loadMore, treeVars>>
    /\ UNCHANGED <<buildVars, nameVars, queryVars, linkVars, menuVars>>

\* loadMoreConcepts(conceptId) for the id of a concept of the tree; the call
\* changes nothing, so one call per behaviour shows every result
LoadMoreConcepts(conceptId) ==
    /\ pc = "idle"
    /\ calls > 0
    /\ ~loadMore.called
    /\ conceptId \in DOMAIN conceptsById
    /\ \E result \in loadMoreConcepts(activeConceptTree.c, conceptsById, conceptId) :
           loadMore' = [called |-> TRUE, conceptId |-> conceptId, result |-> result]
    /\ UNCHANGED <<activeConceptTree, concepts, conceptsById, paths, maxAGlobalDensity,
                   keyConcepts, pc, n, bestConceptSet, avgContribution, avgOverallScore,
                   remainConcepts, i, last, calls, outcome, previous, treeVars>>
    /\ UNCHANGED <<buildVars, nameVars, queryVars, linkVars, menuVars>>

ConceptRefs == {SynThing} \cup DOMAIN ConceptUri

\* the model scored by one call that asks for MaxN concepts, with concepts
\* put on the diagram and one loadMoreConcepts call
NextLoad ==
    \/ \E bs \in LoadClassInputs, p \in PropertyCountInputs : ImportLayout(bs, p)
    \/ \E bs \in LoadInstanceInputs, p \in PropertyCountInputs : SaveClassifierSelection(bs, p)
    \/ ExtractKeyConcepts(MaxN)
    \/ SelectionStep
    \/ ExtractReturn
    \/ \E r \in ConceptRefs : r \in DOMAIN activeConceptTree.c /\ ShowConcept(r)
    \/ UnShowConcepts
    \/ \E conceptId \in DOMAIN ConceptUri : LoadMoreConcepts(conceptId)

SpecLoad == Init /\ [][NextLoad]_vars

\* the model with a repeated call
NextRepeat ==
    \/ \E bs \in LoadClassInputs, p \in PropertyCountInputs : ImportLayout(bs, p)
    \/ \E bs \in LoadInstanceInputs, p \in PropertyCountInputs : SaveClassifierSelection(bs, p)
    \/ \E nn \in NRange : ExtractKeyConcepts(nn)
    \/ ExtractKeyConceptsAgain
    \/ SelectionStep
    \/ ExtractReturn

SpecRepeat == Init /\ [][NextRepeat]_vars

\* the model scored by one call that asks for MaxN concepts, whose active
\* tree is then replaced and scored again
NextReplace ==
    \/ \E bs \in LoadClassInputs, p \in PropertyCountInputs : ImportLayout(bs, p)
    \/ \E bs \in LoadInstanceInputs, p \in PropertyCountInputs : SaveClassifierSelection(bs, p)
    \/ ExtractKeyConcepts(MaxN)
    \/ \E bs \in ReplaceInputs, p \in PropertyCountInputs : SaveClassifierSelectionAgain(bs, p)
    \/ SetRegimeClass
    \/ ExtractKeyConceptsAgain
    \/ SelectionStep
    \/ ExtractReturn

SpecReplace == Init /\ [][NextReplace]_vars

\* the number of levels calcLocalDensity asks for
K == 2

\* getNearestConceptsKLevel(K, concept) for a concept of the tree; the call
\* changes nothing, so one query per behaviour shows every result
GetNearestConceptsKLevel(r) ==
    /\ pc = "idle"
    /\ calls = 0
    /\ ~nearest.called
    /\ ~isAPath.called
    /\ r \in DOMAIN activeConceptTree.c
    /\ nearest' = [called |-> TRUE, concept |-> r,
                   result |-> getNearestConceptsKLevel(activeConceptTree.c, K, r)]
    /\ UNCHANGED <<activeConceptTree, concepts, conceptsById, paths, maxAGlobalDensity,
                   keyConcepts, pc, n, bestConceptSet, avgContribution, avgOverallScore,
                   remainConcepts, i, last, calls, outcome, previous, loadMore, treeVars,
                   isAPath>>
    /\ UNCHANGED <<buildVars, nameVars, linkVars, menuVars>>

\* the each(u.parent, ...) of the BFS loop of getIsAPath from the k-th parent
\* on; st holds queue, trace and threw.  check[parent.id] is undefined for
\* an id outside check and reading its field throws
RECURSIVE visitParents(_, _, _, _, _, _)
visitParents(cs, st, check, checked, u, k) ==
    IF Strict(st, st.threw \/ k > Len(cs[u].parent)) THEN st
    ELSE LET parent == cs[u].parent[k]
         IN  IF cs[parent].id \notin check
             THEN [st EXCEPT !.threw = TRUE]
             ELSE IF cs[parent].id \notin checked
             THEN visitParents(cs, [st EXCEPT !.queue = Append(@, parent),
                                              !.trace = (cs[parent].id :> u) @@ @],
                               check, checked, u, k + 1)
             ELSE visitParents(cs, st, check, checked, u, k + 1)

\* the while(queue.length > 0) loop of getIsAPath; checked holds the ids
\* whose entry of check has checked set
RECURSIVE bfs(_, _, _, _, _)
bfs(cs, st, check, checked, targetId) ==
    IF Strict(st, st.threw \/ st.queue = << >>) THEN st
    ELSE LET u == Head(st.queue)
             checked1 == checked \cup {cs[u].id}
         IN  IF cs[u].id = targetId THEN [st EXCEPT !.queue = Tail(@)]
             ELSE bfs(cs, visitParents(cs, [st EXCEPT !.queue = Tail(@)],
                                       check, checked1, u, 1),
                      check, checked1, targetId)

\* a faulty last loop: the source is pushed right after the target
sourceAfterTarget(cs, trace, sourceId, byId, currentId, result, steps) ==
    IF currentId = sourceId THEN [outcome |-> "returned", result |-> result]
    ELSE [outcome |-> "returned", result |-> Append(result, byId[sourceId])]

\* the while(currentId != sourceId) loop of getIsAPath: trace[currentId] is
\* undefined for an id without an entry and reading its id throws; a loop
\* that has pushed more concepts than there are ids does not end
RECURSIVE followTrace(_, _, _, _, _, _, _)
followTrace(cs, trace, sourceId, byId, currentId, result, steps) ==
    IF Strict(result, currentId = sourceId) THEN [outcome |-> "returned", result |-> result]
    ELSE IF currentId \notin DOMAIN trace THEN [outcome |-> "threw", result |-> << >>]
    ELSE IF steps = 0 THEN [outcome |-> "diverged", result |-> << >>]
    ELSE followTrace(cs, trace, sourceId, byId, cs[trace[currentId]].id,
                     Append(result, trace[currentId]), steps - 1)

\* getIsAPath(sourceId, targetId) for the ids of two concepts
getIsAPath(cs, byId, sourceId, targetId) ==
    LET source == byId[sourceId]
        superConcepts == cs[source].allSuperConcepts
        check == {sourceId} \cup {cs[superConcepts[k]].id : k \in 1..Len(superConcepts)}
        st == bfs(cs, [queue |-> <<source>>, trace |-> EmptyFun, threw |-> FALSE],
                  check, {}, targetId)
    IN  IF st.threw THEN [outcome |-> "threw", result |-> << >>]
        ELSE followTrace(cs, st.trace, sourceId, byId, targetId, <<byId[targetId]>>,
                         Cardinality(DOMAIN byId))

\* getIsAPath for the ids of two concepts of the tree; the call changes
\* nothing, so one query per behaviour shows every result
GetIsAPath(sourceId, targetId) ==
    /\ pc = "idle"
    /\ calls = 0
    /\ ~isAPath.called
    /\ ~nearest.called
    /\ sourceId \in DOMAIN conceptsById
    /\ targetId \in DOMAIN conceptsById
    /\ \E r \in {getIsAPath(activeConceptTree.c, conceptsById, sourceId, targetId)} :
           isAPath' = [called |-> TRUE, sourceId |-> sourceId, targetId |-> targetId,
                       outcome |-> r.outcome, result |-> r.result]
    /\ UNCHANGED <<activeConceptTree, concepts, conceptsById, paths, maxAGlobalDensity,
                   keyConcepts, pc, n, bestConceptSet, avgContribution, avgOverallScore,
                   remainConcepts, i, last, calls, outcome, previous, loadMore, treeVars,
                   nearest>>
    /\ UNCHANGED <<buildVars, nameVars, linkVars, menuVars>>

\* queries on a loaded tree
NextQuery ==
    \/ \E bs \in LoadClassInputs, p \in PropertyCountInputs : ImportLayout(bs, p)
    \/ \E bs \in LoadInstanceInputs, p \in PropertyCountInputs : SaveClassifierSelection(bs, p)
    \/ \E r \in ConceptRefs : GetNearestConceptsKLevel(r)
    \/ \E sourceId \in DOMAIN ConceptUri, targetId \in DOMAIN ConceptUri :
           GetIsAPath(sourceId, targetId)

SpecQuery == Init /\ [][NextQuery]_vars

(***************************************************************************)
(* The links of the diagram.  Every element of LinkElements is in the      *)
(* graph and every link type is visible, so createLink registers and adds  *)
(* every link it constructs.  st holds graph, linksByType, elementLinks    *)
(* and nextLinkId.                                                         *)
(***************************************************************************)
\* findLinkIndex(haystack, needle): the index counted from 0, -1 without a
\* match
findLinkIndex(haystack, needle) ==
    LET found == {j \in 1..Len(haystack) :
                     /\ haystack[j].sourceId = needle.sourceId
                     /\ haystack[j].targetId = needle.targetId
                     /\ haystack[j].typeId = needle.linkTypeId}
    IN  IF found = {} THEN -1
        ELSE (CHOOSE j \in found : \A h \in found : j <= h) - 1

\* Array.prototype.splice(index, 1): a negative index counts from the end
splice(links, index) ==
    LET start == IF index < 0
                 THEN (IF Len(links) + index < 0 THEN 0 ELSE Len(links) + index)
                 ELSE (IF index > Len(links) THEN Len(links) ELSE index)
    IN  IF start >= Len(links) THEN links
        ELSE SubSeq(links, 1, start) \o SubSeq(links, start + 2, Len(links))

removeLinkFrom(links, model) == splice(links, findLinkIndex(links, model))

\* the fields the 'remove' listener of the graph reads from the cell
linkModelOf(link) ==
    [linkTypeId |-> link.typeId, sourceId |-> link.sourceId, targetId |-> link.targetId,
     directLink |-> link.directLink]

\* removeLinkReferences(linkModel): source list, target list, list of the type
removeLinkReferences(st, linkModel) ==
    LET s1 == [st EXCEPT !.elementLinks[linkModel.sourceId] = removeLinkFrom(@, linkModel)]
        s2 == [s1 EXCEPT !.elementLinks[linkModel.targetId] = removeLinkFrom(@, linkModel)]
    IN  IF linkModel.linkTypeId \in DOMAIN s2.linksByType
        THEN [s2 EXCEPT !.linksByType[linkModel.linkTypeId] = removeLinkFrom(@, linkModel)]
        ELSE s2

registerLink(st, link) ==
    LET byType == IF link.typeId \in DOMAIN st.linksByType THEN st.linksByType
                  ELSE st.linksByType @@ (link.typeId :> << >>)
        s1 == [st EXCEPT !.linksByType = [byType EXCEPT ![link.typeId] = Append(@, link)]]
        s2 == [s1 EXCEPT !.elementLinks[link.sourceId] = Append(@, link)]
    IN  [s2 EXCEPT !.elementLinks[link.targetId] = Append(@, link)]

\* getLink(linkModel) finds a link: it is looked up in the list of the source
getLink(st, linkModel) == findLinkIndex(st.elementLinks[linkModel.sourceId], linkModel) >= 0

createLink(st, linkModel) ==
    IF getLink(st, linkModel) THEN st
    ELSE LET link == [id |-> st.nextLinkId, typeId |-> linkModel.linkTypeId,
                      sourceId |-> linkModel.sourceId, targetId |-> linkModel.targetId,
                      directLink |-> linkModel.directLink]
             s1 == registerLink(st, link)
         IN  [s1 EXCEPT !.graph = Append(@, link), !.nextLinkId = @ + 1]

\* onLinkInfoLoaded(links) from the k-th link model on
RECURSIVE onLinkInfoLoaded(_, _, _)
onLinkInfoLoaded(st, links, k) ==
    IF Strict(st, k > Len(links)) THEN st
    ELSE onLinkInfoLoaded(createLink(st, links[k]), links, k + 1)

constructVirtualLink(regime, sourceId, targetId, directLink) ==
    [linkTypeId |-> IF regime = "individual"
                    THEN (IF targetId = THING_URI THEN IS_A_IRI ELSE HAS_RELATION_WITH_IRI)
                    ELSE SUB_CLASS_OF_IRI,
     sourceId |-> sourceId, targetId |-> targetId, directLink |-> directLink]

\* link.remove(): the cell leaves the graph and the 'remove' listener of the
\* model runs removeLinkReferences
removeLink(st, link) ==
    removeLinkReferences(
        [st EXCEPT !.graph = SelectSeq(@, LAMBDA l : l.id # link.id)], linkModelOf(link))

\* first loop of removeVirtualLinks over the links the graph held, from the
\* k-th on
RECURSIVE removeIndirectLinks(_, _, _)
removeIndirectLinks(st, links, k) ==
    IF Strict(st, k > Len(links)) THEN st
    ELSE removeIndirectLinks(IF ~links[k].directLink THEN removeLink(st, links[k]) ELSE st,
                             links, k + 1)

\* second loop of removeVirtualLinks over this.virtualLinks
RECURSIVE removeVirtualLinkReferences(_, _, _)
removeVirtualLinkReferences(st, models, k) ==
    IF Strict(st, k > Len(models)) THEN st
    ELSE removeVirtualLinkReferences(removeLinkReferences(st, models[k]), models, k + 1)

removeVirtualLinks(st, models) ==
    removeVirtualLinkReferences(removeIndirectLinks(st, st.graph, 1), models, 1)

LinkState ==
    [graph |-> graphLinks, linksByType |-> linksByType, elementLinks |-> elementLinks,
     nextLinkId |-> nextLinkId]

SetLinkState(st) ==
    /\ graphLinks' = st.graph
    /\ linksByType' = st.linksByType
    /\ elementLinks' = st.elementLinks
    /\ nextLinkId' = st.nextLinkId

\* the virtual link models createVirtualLinksBetweenVisualizedConcepts may
\* construct: an indirect link to an ancestor, a direct one to owl:Thing
VirtualLinkModels ==
    {constructVirtualLink(active, q[1], q[2], FALSE) :
        q \in {x \in (LinkElements \ {THING_URI}) \X LinkElements : x[1] # x[2]}}
    \cup {constructVirtualLink(active, src, THING_URI, TRUE) : src \in LinkElements \ {THING_URI}}

\* createLink(linkModel) for a link of the data provider
CreateLink(linkModel) ==
    /\ nextLinkId <= MaxLinks
    /\ \E st \in {createLink(LinkState, linkModel)} : SetLinkState(st)
    /\ UNCHANGED virtualLinks
    /\ UNCHANGED <<buildVars, modelVars, nameVars, menuVars>>

\* createVirtualLinksBetweenVisualizedConcepts: the models are kept in
\* this.virtualLinks and handed to onLinkInfoLoaded
CreateVirtualLinksBetweenVisualizedConcepts(models) ==
    /\ nextLinkId + Len(models) <= MaxLinks + 1
    /\ models # << >>
    /\ virtualLinks' = models
    /\ \E st \in {onLinkInfoLoaded(LinkState, models, 1)} : SetLinkState(st)
    /\ UNCHANGED <<buildVars, modelVars, nameVars, menuVars>>

\* a link is removed from the graph from outside the model
RemoveLink(k) ==
    /\ k \in 1..Len(graphLinks)
    /\ \E st \in {removeLink(LinkState, graphLinks[k])} : SetLinkState(st)
    /\ UNCHANGED virtualLinks
    /\ UNCHANGED <<buildVars, modelVars, nameVars, menuVars>>

RemoveVirtualLinks ==
    /\ graphLinks # << >> \/ virtualLinks # << >>
    /\ \E st \in {removeVirtualLinks(LinkState, virtualLinks)} : SetLinkState(st)
    /\ UNCHANGED virtualLinks
    /\ UNCHANGED <<buildVars, modelVars, nameVars, menuVars>>

NextLinks ==
    \/ \E linkModel \in LinkModelInputs : CreateLink(linkModel)
    \/ \E models \in SeqsUpTo(VirtualLinkModels, MaxVirtualLinks) :
           CreateVirtualLinksBetweenVisualizedConcepts(models)
    \/ \E k \in 1..MaxLinks : RemoveLink(k)
    \/ RemoveVirtualLinks

SpecLinks == Init /\ [][NextLinks]_vars

(***************************************************************************)
(* The classifier selection menu: the box of all relations and the boxes   *)
(* of the direct and the reverse relations.  A dictionary is the list of   *)
(* its entries in insertion order.                                         *)
(***************************************************************************)
\* Object.keys(dictionary)
keys(dictionary) == [k \in 1..Len(dictionary) |-> dictionary[k].id]

\* {...dictionary, [id]: value}
withEntry(dictionary, id, value) ==
    IF InSeq(id, keys(dictionary))
    THEN [k \in 1..Len(dictionary) |->
             IF dictionary[k].id = id THEN [id |-> id, value |-> value] ELSE dictionary[k]]
    ELSE Append(dictionary, [id |-> id, value |-> value])

\* dictionary[id], FALSE for undefined
isSelected(dictionary, id) ==
    \E k \in 1..Len(dictionary) : dictionary[k].id = id /\ dictionary[k].value

\* onClick of an item of a box: the selection of the item is toggled
ClickItem(box, id) ==
    /\ InSeq(id, boxItems[box])
    /\ selectedItems' =
          [selectedItems EXCEPT ![box] = withEntry(@, id, ~isSelected(@, id))]
    /\ UNCHANGED boxItems
    /\ UNCHANGED <<buildVars, modelVars, nameVars, linkVars>>

\* onDragStart of an item of the box source: the ids put in the data transfer
dragged(source, id) == keys(withEntry(selectedItems[source], id, TRUE))

\* updateLinksBox(e, targetComponent) for the data transfer of a drag that
\* started at the item id of the box source
updateLinksBox(source, id, target) ==
    \E newItems \in {dragged(source, id)} :
        IF source = target THEN UNCHANGED boxItems
        ELSE boxItems' = [boxItems EXCEPT ![source] = difference(@, newItems),
                                          ![target] = @ \o newItems]

\* an item of a box is dragged and dropped on a box
DragDrop(source, id, target) ==
    /\ InSeq(id, boxItems[source])
    /\ Len(boxItems[target]) + Len(dragged(source, id)) <= MaxBoxItems
    /\ updateLinksBox(source, id, target)
    /\ UNCHANGED selectedItems
    /\ UNCHANGED <<buildVars, modelVars, nameVars, linkVars>>

NextMenu ==
    \/ \E box \in Boxes, id \in Range(MenuLinks) : ClickItem(box, id)
    \/ \E source \in Boxes, target \in Boxes, id \in Range(MenuLinks) :
           DragDrop(source, id, target)

SpecMenu == Init /\ [][NextMenu]_vars

(***************************************************************************)
(* The name-simplicity pass on its own, for every URI over Alphabet of     *)
(* length at most MaxUriLen.                                               *)
(***************************************************************************)
UriInputs == SeqsUpTo(Alphabet, MaxUriLen)

\* a concept with the id u is met by calcNameSimplicityOfConcepts
CalcNameSimplicity(u) ==
    /\ uri = << >>
    /\ u # << >>
    /\ uri' = u
    /\ nameSimplicity' = nameSimplicityOf(u)
    /\ UNCHANGED <<buildVars, modelVars, linkVars, menuVars>>

NextName == \E u \in UriInputs : CalcNameSimplicity(u)

SpecName == Init /\ [][NextName]_vars

(***************************************************************************)
(* Properties of the builders (SpecBuild)                                  *)
(***************************************************************************)
NoDuplicates(s) == \A j, k \in 1..Len(s) : s[j] = s[k] => j = k

Min(x, y) == IF x <= y THEN x ELSE y

\* the concepts reachable from r by following parent, r excluded
RECURSIVE Ancestors(_, _)
Ancestors(cs, r) ==
    UNION {{p} \cup Ancestors(cs, p) : p \in Range(cs[r].parent)}

\* C5: in a built tree A is in B.covered exactly when B is in A.covered,
\* for concepts with one parent and with several parents alike.
CoveredIsSymmetric ==
    built # NoTree =>
        \A A \in DOMAIN built.c, B \in DOMAIN built.c :
            InSeq(A, built.c[B].covered) <=> InSeq(B, built.c[A].covered)

\* a built tree of three levels in which a concept has two different parents
CoveredWithTwoParents ==
    /\ built # NoTree
    /\ \E r \in DOMAIN built.c :
          /\ Cardinality(Range(built.c[r].parent)) >= 2
          /\ built.c[r].level >= 3
          /\ Range(built.c[r].parent) \subseteq Range(built.c[r].covered)

\* C6: the tree a builder returns has exactly one concept without a
\* parent, its root, whatever the bindings were.
ExactlyOneRoot ==
    built # NoTree =>
        /\ Cardinality({r \in DOMAIN built.c : built.c[r].parent = << >>}) = 1
        /\ built.c[built.root].parent = << >>

\* bindings with several disconnected roots were built into one tree
SeveralRootsBuilt ==
    /\ built # NoTree
    /\ input.builder = "getInstanceConceptsTree"
    /\ Cardinality({k \in 1..Len(input.bindings) :
                      input.bindings[k].parent = NoId}) >= 2
    /\ Len(built.c[built.root].children) >= 2
    /\ built.c[built.root].id = THING_URI

\* C7: a concept with two parents P1 and P2 has as allSuperConcepts the set
\* {P1, P2} with the ancestors of P1 and of P2, each listed once.
TwoParentsSuperConcepts ==
    built # NoTree =>
        \A r \in DOMAIN built.c :
            LET ps == built.c[r].parent
            IN  (Len(ps) = 2 /\ ps[1] # ps[2]) =>
                    /\ Range(built.c[r].allSuperConcepts) =
                           {ps[1], ps[2]} \cup Ancestors(built.c, ps[1])
                                         \cup Ancestors(built.c, ps[2])
                    /\ NoDuplicates(built.c[r].allSuperConcepts)

\* the lists with the entries of s in every order
PermutationsOf(s) ==
    {[k \in 1..Len(s) |-> s[f[k]]] :
        f \in {g \in [1..Len(s) -> 1..Len(s)] : \A j, k \in 1..Len(s) : g[j] = g[k] => j = k}}

\* C13: the tree getClassTree builds from the bindings in another order gives
\* every concept the same set of children and the same set of parents.
ClassTreeOrderIndependent ==
    (input.builder = "getClassTree" /\ built # NoTree) =>
        \A bs \in PermutationsOf(input.bindings) :
            \E t \in {getClassTree(bs)} :
                t # NoTree =>
                    \A r \in DOMAIN built.c \cap DOMAIN t.c :
                        /\ Range(t.c[r].children) = Range(built.c[r].children)
                        /\ Range(t.c[r].parent) = Range(built.c[r].parent)

\* the largest number of S, 0 for the empty set
MaxOf(S) == IF S = {} THEN 0 ELSE CHOOSE x \in S : \A y \in S : y <= x

\* the instance counts of the bindings that declare the class id
DeclaredCounts(id) ==
    {input.bindings[k].instcount :
        k \in {j \in 1..Len(input.bindings) : input.bindings[j].class = id}}

DeclaredIds ==
    IF input.builder = "getClassTree"
    THEN {input.bindings[k].class : k \in 1..Len(input.bindings)}
    ELSE {input.bindings[k].concept : k \in 1..Len(input.bindings)}

\* the parent ids of the bindings without a record of their own, the id of
\* the synthetic root excluded
DanglingParents ==
    {input.bindings[k].parent : k \in 1..Len(input.bindings)}
        \ (DeclaredIds \cup {NoId, THING_URI})

\* C15: bindings that reference a parent id without a record of its own make
\* the builder end with an error: no tree is returned, the parent is not
\* made a concept and the child is not dropped.
DanglingParentAborts ==
    (input.builder \in {"getClassTree", "getInstanceConceptsTree"}
        /\ DanglingParents # {}) => built = NoTree

\* the classes whose first record names a parent of PRIMITIVE_TYPE
UnderPrimitiveType ==
    {input.bindings[k].class : k \in
        {j \in 1..Len(input.bindings) :
            /\ input.bindings[j].class \notin PRIMITIVE_TYPE
            /\ input.bindings[j].parent \in PRIMITIVE_TYPE
            /\ \A h \in 1..(j - 1) : input.bindings[h].class # input.bindings[j].class}}

\* C26: in the concept tree built from a class tree no concept but the root
\* has an id of PRIMITIVE_TYPE, and every class whose parent in the class
\* tree has such an id is a concept of the tree
PrimitiveTypesLeftOut ==
    (input.builder = "getClassTree" /\ built # NoTree) =>
        /\ \A r \in DOMAIN built.c \ {built.root} : built.c[r].id \notin PRIMITIVE_TYPE
        /\ \A id \in UnderPrimitiveType : \E r \in DOMAIN built.c : built.c[r].id = id

(***************************************************************************)
(* Properties of the extraction (Spec)                                     *)
(***************************************************************************)
\* the concepts of the active tree
TreeConcepts == DOMAIN activeConceptTree.c

\* the ids of the concepts returned
KeyConceptIds == [k \in 1..Len(keyConcepts) |-> activeConceptTree.c[keyConcepts[k]].id]

\* the fields the scoring and the selection write
ScoreFields(concept) ==
    <<concept.aGlobalDensity, concept.globalDensity, concept.localDensity,
      concept.density, concept.nameSimplicity, concept.basicLevel, concept.ncValue,
      concept.score, concept.contribution, concept.overallScore>>

\* C1: a call with n >= 1 returns min(n, number of concepts of the tree)
\* concepts and no concept id twice, for trees with several parents too.
KeyConceptsSizeAndDistinct ==
    (outcome = "returned" /\ n >= 1) =>
        /\ Len(keyConcepts) = Min(n, Cardinality(TreeConcepts))
        /\ NoDuplicates(KeyConceptIds)

\* C2: a call with n at least the number of concepts of the tree returns
\* every concept of the tree and forms and evaluates no concept set.
ReturnsAllWithoutSearch ==
    (calls > 0 /\ n >= Cardinality(TreeConcepts)) =>
        /\ outcome = "returned"
        /\ ~last.searched
        /\ Range(keyConcepts) = TreeConcepts

\* C3: a call with n <= 0 ends with an error before the scoring: no score
\* field of a concept changes and no result set is returned.
RejectsNonPositiveSize ==
    [][(calls' = calls + 1 /\ n' <= 0) =>
          /\ outcome' = "error"
          /\ keyConcepts' = keyConcepts
          /\ \A r \in TreeConcepts :
                ScoreFields(activeConceptTree'.c[r]) = ScoreFields(activeConceptTree.c[r])]_vars

\* C4: an accepted swap makes the average overallScore of the working set
\* strictly greater and its average contribution not smaller; a rejected
\* candidate leaves both, so over a run the accepted sets have increasing
\* average overallScore and non-decreasing average contribution.
AcceptedSwapImproves ==
    [][(pc = "loop" /\ i' = i + 1) =>
          IF bestConceptSet' # bestConceptSet
          THEN /\ Gt(avgOverallScore', avgOverallScore)
               /\ Ge(avgContribution', avgContribution)
               /\ avgOverallScore' = last'.avgOverallScore1
               /\ avgContribution' = last'.avgContribution1
          ELSE /\ avgOverallScore' = avgOverallScore
               /\ avgContribution' = avgContribution]_vars

\* a swap has been accepted: the candidate replaced the worst concept
SwapAccepted ==
    /\ last.kind = "candidate"
    /\ last.accepted
    /\ bestConceptSet = last.evaluated
    /\ InSeq(last.candidate, bestConceptSet)
    /\ ~InSeq(last.worst, bestConceptSet)
    /\ InSeq(last.worst, last.before)

\* C8: when no concept of the tree has a child, an instance or a property,
\* the density pass leaves globalDensity = 0 and density = 0 everywhere.
ZeroTreeHasZeroDensity ==
    (calls > 0 /\ \A r \in TreeConcepts :
                    /\ activeConceptTree.c[r].children = << >>
                    /\ activeConceptTree.c[r].count = 0
                    /\ activeConceptTree.c[r].propertyCount = 0) =>
        \A r \in TreeConcepts :
            /\ activeConceptTree.c[r].globalDensity = Zero
            /\ activeConceptTree.c[r].density = Zero

\* C9: when no member of the evaluated set has a contribution, the
\* overallScore of each member is WEIGHT_CR * score, and with defined
\* scores the overallScores and their average are defined numbers.
ZeroContributionKeepsScore ==
    (last.searched /\ last.evaluated # << >>
       /\ \A r \in Range(last.evaluated) : activeConceptTree.c[r].contribution = Zero) =>
        /\ \A r \in Range(last.evaluated) :
              activeConceptTree.c[r].overallScore =
                  Mul(WEIGHT_CR, activeConceptTree.c[r].score)
        /\ (\A r \in Range(last.evaluated) : IsFinite(activeConceptTree.c[r].score)) =>
              IsFinite(last.avgOverallScore1)

\* C12: the selection is one pass over the remainder in which every concept
\* is the swap candidate exactly once: the candidate of an iteration was not
\* the candidate of an earlier iteration of the same call.
CandidateExaminedOnce ==
    [][(pc = "loop" /\ i' = i + 1) =>
          /\ last'.candidate = remainConcepts[i']
          /\ \A k \in 1..i : remainConcepts[k] # last'.candidate]_vars

EvaluatedAgainst(cs, S) ==
    calcOverallScoreOfConcepts(calcContributionOfConcepts(cs, S).c, S).c

\* C18: the concept an iteration removes from the working set is a member of
\* the set, and no member has a lower overallScore when the overallScores
\* are computed against the working set itself.
RemovedIsWorstOfSet ==
    [][(pc = "loop" /\ i' = i + 1) =>
          /\ InSeq(last'.worst, bestConceptSet)
          /\ \A r \in Range(bestConceptSet) :
                ~Lt(EvaluatedAgainst(activeConceptTree.c, bestConceptSet)[r].overallScore,
                    EvaluatedAgainst(activeConceptTree.c, bestConceptSet)[last'.worst].overallScore)]_vars

\* C19: an iteration that rejects its candidate leaves the working set as
\* it is; an iteration that accepts it replaces the set by the set without
\* its worst member and with the remainder concept r: worst was a member
\* and leaves, r was none and enters, every other member stays.
SwapReplacesWorstOnly ==
    [][(pc = "loop" /\ i' = i + 1) =>
          IF last'.accepted
          THEN /\ last'.candidate = remainConcepts[i']
               /\ InSeq(last'.worst, bestConceptSet)
               /\ ~InSeq(last'.candidate, bestConceptSet)
               /\ Range(bestConceptSet') =
                      (Range(bestConceptSet) \ {last'.worst}) \cup {last'.candidate}
          ELSE bestConceptSet' = bestConceptSet]_vars

\* C20: when a call has returned, every returned concept has the
\* contribution and the overallScore that the returned set gives it.
ReturnedFieldsOfReturnedSet ==
    (outcome = "returned" /\ pc = "idle") =>
        \A r \in Range(keyConcepts) :
            /\ activeConceptTree.c[r].contribution =
                  EvaluatedAgainst(activeConceptTree.c, keyConcepts)[r].contribution
            /\ activeConceptTree.c[r].overallScore =
                  EvaluatedAgainst(activeConceptTree.c, keyConcepts)[r].overallScore

\* the concepts of r.covered that no other member of the set S covers
CoveredByNoOther(cs, S, r) ==
    {x \in Range(cs[r].covered) :
        \A m \in Range(S) \ {r} : x \notin Range(cs[m].covered)}

LocalDensityReadsCurrentPass ==
    calls = 1 =>
        \A r \in TreeConcepts :
            activeConceptTree.c[r].localDensity =
                calcLocalDensity(activeConceptTree.c, r)[r].localDensity

(***************************************************************************)
(* Properties of a repeated extraction (SpecRepeat)                        *)
(***************************************************************************)
\* a second call with the same n has returned
RepeatedCallReturned == calls = 2 /\ outcome = "returned" /\ previous # NoCall

\* C11: a second extraction call with the same n on the unchanged tree gives
\* every concept the globalDensity, localDensity, basicLevel and score the
\* first call gave it, and returns the same set of concepts.
RepeatedCallSameResult ==
    RepeatedCallReturned =>
        /\ \A r \in TreeConcepts :
              /\ activeConceptTree.c[r].globalDensity = previous.c[r].globalDensity
              /\ activeConceptTree.c[r].localDensity = previous.c[r].localDensity
              /\ activeConceptTree.c[r].basicLevel = previous.c[r].basicLevel
              /\ activeConceptTree.c[r].score = previous.c[r].score
        /\ Range(keyConcepts) = Range(previous.keyConcepts)

\* the paths from r down to a leaf, each a list of concepts
RECURSIVE PathsToLeaf(_, _)
PathsToLeaf(cs, r) ==
    IF cs[r].children = << >> THEN {<<r>>}
    ELSE UNION {{<<r>> \o q : q \in PathsToLeaf(cs, ch)} : ch \in Range(cs[r].children)}

\* the number of root-to-leaf paths of at least 3 concepts on which r is
\* neither the first nor the last concept
InteriorPathCount(r) ==
    Cardinality({q \in PathsToLeaf(activeConceptTree.c, activeConceptTree.root) :
                    Len(q) >= 3 /\ \E k \in 2..(Len(q) - 1) : q[k] = r})

\* C25: after the first call and after a repeated call, basicLevel(c) is the
\* number of root-to-leaf paths of length >= 3 with c in their interior,
\* divided by the largest such number over the concepts, a value in [0,1]
BasicLevelIsShareOfPaths ==
    (calls >= 1 /\ pc = "idle") =>
        \A r \in TreeConcepts :
            /\ activeConceptTree.c[r].basicLevel =
                   Div(Num(InteriorPathCount(r)),
                       Num(MaxOf({InteriorPathCount(x) : x \in TreeConcepts})))
            /\ Ge(activeConceptTree.c[r].basicLevel, Zero)
            /\ Le(activeConceptTree.c[r].basicLevel, Num(1))

(***************************************************************************)
(* Property of loadMoreConcepts (SpecLoad)                                 *)
(***************************************************************************)
\* the concepts reachable from r by following children, r excluded
RECURSIVE Descendants(_, _)
Descendants(cs, r) ==
    UNION {{ch} \cup Descendants(cs, ch) : ch \in Range(cs[r].children)}

\* the descendants of the concept loadMoreConcepts was called for that are
\* not on the diagram
EligibleToLoad ==
    {r \in Descendants(activeConceptTree.c, conceptsById[loadMore.conceptId]) :
        ~activeConceptTree.c[r].presentOnDiagram}

\* C17: loadMoreConcepts(id) returns the min(5, number of eligible concepts)
\* descendants of id that are not on the diagram with the highest scores:
\* no concept twice, in descending score order, and no eligible descendant
\* that is left out has a higher score than a returned one.
LoadMoreReturnsBest ==
    loadMore.called =>
        LET cs == activeConceptTree.c
            result == loadMore.result
        IN  /\ Len(result) = Min(LOAD_AMOUNT, Cardinality(EligibleToLoad))
            /\ Range(result) \subseteq EligibleToLoad
            /\ NoDuplicates(result)
            /\ \A j, k \in 1..Len(result) :
                  j < k => ~Lt(cs[result[j]].score, cs[result[k]].score)
            /\ \A r \in EligibleToLoad \ Range(result), x \in Range(result) :
                  ~Gt(cs[r].score, cs[x].score)

(***************************************************************************)
(* Properties of a replaced tree (SpecReplace)                             *)
(***************************************************************************)
\* the tree was replaced and the extraction has run on the new tree
ReplacedAndScored == trees = 2 /\ calls = 2 /\ outcome = "returned"

\* the largest raw density of the concepts of the active tree
MaxRawDensity ==
    CHOOSE x \in {activeConceptTree.c[r].aGlobalDensity : r \in TreeConcepts} :
        \A r \in TreeConcepts : Le(activeConceptTree.c[r].aGlobalDensity, x)

\* C22: once the active tree is replaced and scored, the global density of
\* each concept is its raw density divided by the largest raw density of the
\* concepts of the active tree, and is 1 for a concept that holds a non-zero
\* largest raw density
GlobalDensityOfActiveTree ==
    ReplacedAndScored =>
        \A r \in TreeConcepts :
            /\ activeConceptTree.c[r].globalDensity =
                   Div(activeConceptTree.c[r].aGlobalDensity, MaxRawDensity)
            /\ (activeConceptTree.c[r].aGlobalDensity = MaxRawDensity /\ Gt(MaxRawDensity, Zero))
                   => activeConceptTree.c[r].globalDensity = Num(1)

\* C27: once a tree is set, and once it is replaced by setConceptTree or
\* setRegime('class'), the concept list holds every concept of the active
\* tree exactly once and nothing else, also when a concept has several
\* parents
ConceptListIsActiveTree ==
    trees >= 1 =>
        /\ NoDuplicates(concepts)
        /\ Range(concepts) = TreeConcepts

(***************************************************************************)
(* Properties of the queries (SpecQuery)                                   *)
(***************************************************************************)
\* the concepts reached from r in at most k steps of the relation next
RECURSIVE Within(_, _, _, _)
Within(cs, next(_, _), r, k) ==
    IF k = 0 THEN {r}
    ELSE {r} \cup UNION {Within(cs, next, x, k - 1) : x \in next(cs, r)}

ParentsOf(cs, r) == Range(cs[r].parent)

ChildrenOf(cs, r) == Range(cs[r].children)

\* C23: getNearestConceptsKLevel(2, c) lists, each once, c, the ancestors of c
\* within 2 parent hops and the descendants of c within 2 child hops, also
\* when a concept has parents at different depths
NearestWithinTwoHops ==
    nearest.called =>
        /\ NoDuplicates(nearest.result)
        /\ Range(nearest.result) =
              Within(activeConceptTree.c, ParentsOf, nearest.concept, K)
              \cup Within(activeConceptTree.c, ChildrenOf, nearest.concept, K)

\* the target of the getIsAPath call is an ancestor of its source
TargetIsAncestor ==
    /\ isAPath.called
    /\ conceptsById[isAPath.targetId] \in
           Ancestors(activeConceptTree.c, conceptsById[isAPath.sourceId])

\* C30: for a target that is an ancestor of the source getIsAPath returns,
\* and the list starts at the target, ends at the source and each concept of
\* it is a direct child of the one before, with several parents too
IsAPathLeadsDownToSource ==
    TargetIsAncestor =>
        /\ isAPath.outcome = "returned"
        /\ Len(isAPath.result) >= 2
        /\ isAPath.result[1] = conceptsById[isAPath.targetId]
        /\ isAPath.result[Len(isAPath.result)] = conceptsById[isAPath.sourceId]
        /\ \A k \in 1..(Len(isAPath.result) - 1) :
              isAPath.result[k + 1] \in ChildrenOf(activeConceptTree.c, isAPath.result[k])

\* a path of three concepts was returned for a source with two parents
PathThroughTwoParents ==
    /\ TargetIsAncestor
    /\ isAPath.outcome = "returned"
    /\ Len(isAPath.result) >= 3
    /\ Cardinality(ParentsOf(activeConceptTree.c, conceptsById[isAPath.sourceId])) >= 2

(***************************************************************************)
(* Property of the link registry (SpecLinks)                               *)
(***************************************************************************)
\* the link is listed for its type and at its source and target elements
Registered(link) ==
    /\ link.typeId \in DOMAIN linksByType
    /\ InSeq(link, linksByType[link.typeId])
    /\ InSeq(link, elementLinks[link.sourceId])
    /\ InSeq(link, elementLinks[link.targetId])

\* the links listed anywhere in the registry
ListedLinks ==
    UNION {Range(linksByType[t]) : t \in DOMAIN linksByType}
    \cup UNION {Range(elementLinks[e]) : e \in DOMAIN elementLinks}

\* C28: after any sequence of link creations, link removals from the graph
\* and removeVirtualLinks calls, a link is in the graph exactly when it is
\* listed for its type and at its source and target elements; no link that
\* is still in the graph is unregistered
LinkRegistryMatchesGraph ==
    /\ \A link \in Range(graphLinks) : Registered(link)
    /\ \A link \in ListedLinks : InSeq(link, graphLinks)

(***************************************************************************)
(* Property of the classifier selection menu (SpecMenu)                    *)
(***************************************************************************)
\* the number of entries of the box that are the relation id
Occurrences(box, id) == Cardinality({k \in 1..Len(boxItems[box]) : boxItems[box][k] = id})

\* C29: after any sequence of item clicks and drag-and-drop moves between
\* the three boxes, every loaded relation is in exactly one box, once: no
\* move duplicates a relation and no move loses one
EveryRelationInOneBox ==
    \A id \in Range(MenuLinks) :
        Occurrences("all-links", id) + Occurrences("direct-links", id)
            + Occurrences("reverse-links", id) = 1

(***************************************************************************)
(* Property of the name-simplicity pass (SpecName)                         *)
(***************************************************************************)
\* C10: the nameSimplicity computed for an identifier lies in [0, 1].
NameSimplicityInUnitInterval ==
    /\ Ge(nameSimplicity, Zero)
    /\ Le(nameSimplicity, Num(1))

====
